---- MODULE Spec2Model ----
(***************************************************************************)
(* Model of the HDB HomeFinder dashboard client (static/js/app.js):        *)
(* the amenities cache and its startup preload, the proximity lookup and   *)
(* marker layout, the viewport bounds passed to fitBounds, and the         *)
(* affordability form handler.                                             *)
(*                                                                         *)
(* Numbers.  TLC has 32-bit integers and no floating point, so angles and  *)
(* lengths are fixed-point integers:                                       *)
(*   - a coordinate is an integer count of 1e-7 degree (103.82 degrees is  *)
(*     1038200000), one decimal finer than toFixed(6) keeps;               *)
(*   - toRad yields units of 1e-7 radian;                                  *)
(*   - sines and cosines are in millionths; sin(x) is x and cos(x) is      *)
(*     1 - x^2/2 for the small angles of one neighbourhood, and            *)
(*     atan2(sqrt a, sqrt(1-a)) is sqrt a;                                 *)
(*   - distances are whole metres.                                         *)
(* The series are exact to the printed digits for latitudes below 12       *)
(* degrees and points less than MaxDelta apart; distanceInMeters answers   *)
(* FarMeters beyond that.                                                  *)
(***************************************************************************)
EXTENDS Integers, Sequences, FiniteSets, TLC

\* ------------------------------------------------------------------ bounds
\* longest feature list drawn for the proximity functions
MaxFeatures == 3
\* user clicks followed in one run of the page
MaxClicks == 2
\* requests of one kind in flight at a time
MaxPending == 1
\* amenity classes whose preload fetch fails
MaxFetchFailures == 1
\* calls made in one run of the functions on their own
MaxCalls == 2

\* ------------------------------------------------------- program constants
EarthRadius == 6371000
OffsetMeters == 18
MetersPerDegLat == 111320
DefaultRadius == 600

\* ------------------------------------------------------------- arithmetic
\* JavaScript division truncated toward zero (TLA+ \div floors)
Div(a, b) == IF a >= 0 THEN a \div b ELSE -((-a) \div b)

Abs(a) == IF a >= 0 THEN a ELSE -a

Min(a, b) == IF a <= b THEN a ELSE b

Max(a, b) == IF a >= b THEN a ELSE b

RECURSIVE ISqrtBetween(_, _, _)
ISqrtBetween(a, lo, hi) ==
  IF lo >= hi THEN lo
  ELSE LET mid == (lo + hi + 1) \div 2
       IN IF mid * mid <= a THEN ISqrtBetween(a, mid, hi)
                            ELSE ISqrtBetween(a, lo, mid - 1)

\* Math.sqrt on a non-negative fixed-point number (floor of the root)
Sqrt(a) == ISqrtBetween(a, 0, 46340)

\* ------------------------------------------------------------------- data
\* One entry of a GeoJSON coordinate array as JSON.parse delivers it: a
\* number, a string that spells a number, or null.  v is the number (or the
\* number spelled) in 1e-7 degree.
NumE(v) == [k |-> "num", v |-> v]
StrE(v) == [k |-> "str", v |-> v]
NullE == [k |-> "null", v |-> 0]

\* Number(x) as the arithmetic operators coerce an entry: a numeric string is
\* the number it spells, null is 0
ToNumber(e) == IF e.k = "null" THEN 0 ELSE e.v

\* typeof x === "number": only such an entry has a toFixed method
IsNumber(e) == e.k = "num"

\* A feature: geomType "none" is a missing geometry; coordsArr is
\* Array.isArray(geometry.coordinates); name "" is a missing NAME/name.
Feature(id, cls, name, gt, arr, cs) ==
  [id |-> id, cls |-> cls, name |-> name, geomType |-> gt,
   coordsArr |-> arr, coords |-> cs]

PointF(id, cls, name, lng, lat) ==
  Feature(id, cls, name, "Point", TRUE, <<NumE(lng), NumE(lat)>>)

\* the two sites of the modelled neighbourhood: P, the initial map centre
\* (103.8198, 1.3521), and Q, about 1.2 km east of P
PLng == 1038198000
PLat == 13521000
QLng == PLng + 110000
QLat == PLat

\* -------------------------------------------------------------- haversine
\* toRad: 1e-7 degree -> 1e-7 radian (pi/180 = 0.01745)
toRad(d) == Div(Div(d, 100) * 1745, 1000)

\* Math.cos of an angle in 1e-7 radian, in millionths
CosE6(x) == LET xm == Div(x, 100) IN 1000000 - Div(Div(xm * xm, 2), 10000)

\* Math.sin(x / 2) * Math.sin(x / 2) for a small angle x, in 1e-14
SinHalfSq(x) == LET s == Div(x, 2) IN s * s

\* largest coordinate difference the fixed-point haversine is computed for
\* (about 1.8 km), and the answer beyond it: farther than every radius
MaxDelta == 160000
FarMeters == 100000

\* Math.atan2 with its arguments exchanged: 2 * atan2(sqrt(1 - a), sqrt(a))
\* is pi less the angle
distanceInMeters_atan2Swapped(lat1, lng1, lat2, lng2) ==
  IF Abs(lat2 - lat1) > MaxDelta \/ Abs(lng2 - lng1) > MaxDelta
  THEN FarMeters
  ELSE
    LET dLat == toRad(lat2 - lat1)
        dLng == toRad(lng2 - lng1)
        cc == Div(Div(CosE6(toRad(lat1)), 1000) * Div(CosE6(toRad(lat2)), 1000), 1000)
        a == SinHalfSq(dLat) + Div(cc * SinHalfSq(dLng), 1000)
        c == 31415926 - 2 * Sqrt(a)
    IN (EarthRadius \div 1000) * Div(c, 10000)

distanceInMeters(lat1, lng1, lat2, lng2) ==
  IF Abs(lat2 - lat1) > MaxDelta \/ Abs(lng2 - lng1) > MaxDelta
  THEN FarMeters
  ELSE
    LET dLat == toRad(lat2 - lat1)
        dLng == toRad(lng2 - lng1)
        cc == Div(Div(CosE6(toRad(lat1)), 1000) * Div(CosE6(toRad(lat2)), 1000), 1000)
        a == SinHalfSq(dLat) + Div(cc * SinHalfSq(dLng), 1000)
        c == 2 * Sqrt(a)
    IN Div((EarthRadius \div 1000) * c, 10000)

\* ------------------------------------------------------ getNearbyAmenities
\* the filter callback: f.geometry present and a Point, coordinates an array
\* of at least two entries, and the distance of the (coerced) pair within
\* the radius
IsNearby_strict(f, lat, lng, radiusMeters) ==
  /\ f.geomType = "Point"
  /\ f.coordsArr
  /\ Len(f.coords) >= 2
  /\ distanceInMeters(lat, lng, ToNumber(f.coords[2]), ToNumber(f.coords[1]))
       < radiusMeters

IsNearby(f, lat, lng, radiusMeters) ==
  /\ f.geomType = "Point"
  /\ f.coordsArr
  /\ Len(f.coords) >= 2
  /\ distanceInMeters(lat, lng, ToNumber(f.coords[2]), ToNumber(f.coords[1]))
       <= radiusMeters

\* cache is the value of amenitiesData: isNull before the preload assigns it
getNearbyAmenities(cache, lat, lng, radiusMeters) ==
  IF cache.isNull THEN <<>>
  ELSE SelectSeq(cache.features, LAMBDA f : IsNearby(f, lat, lng, radiusMeters))

\* ------------------------------------------------ showNearbyAmenitiesOnMap
\* Number.prototype.toFixed(6) of a coordinate: the nearest 1e-6 degree,
\* halves away from zero, as a count of 1e-6 degree
toFixed6(v) == IF v >= 0 THEN (v + 5) \div 10 ELSE -((-v + 5) \div 10)

\* the key `${fLng.toFixed(6)},${fLat.toFixed(6)}`
CoordKey(fLng, fLat) == <<toFixed6(fLng), toFixed6(fLat)>>

\* Math.sin and Math.cos of (indexAtCoord - 1) * (Math.PI / 3), in millionths
SinAngleE6(indexAtCoord) ==
  LET i == (indexAtCoord - 1) % 6
  IN CASE i = 0 -> 0
       [] i = 1 -> 866025
       [] i = 2 -> 866025
       [] i = 3 -> 0
       [] i = 4 -> -866025
       [] i = 5 -> -866025

CosAngleE6(indexAtCoord) ==
  LET i == (indexAtCoord - 1) % 6
  IN CASE i = 0 -> 1000000
       [] i = 1 -> 500000
       [] i = 2 -> -500000
       [] i = 3 -> -1000000
       [] i = 4 -> -500000
       [] i = 5 -> 500000

\* metersPerDegLng = 111320 * Math.cos((fLat * Math.PI) / 180)
MetersPerDegLng(fLat) ==
  Div(MetersPerDegLat * Div(CosE6(toRad(fLat)), 100), 10000)

\* dLat and dLng of the jitter, in 1e-7 degree
JitterLat(indexAtCoord) ==
  Div(OffsetMeters * SinAngleE6(indexAtCoord) * 10, MetersPerDegLat)

JitterLng(indexAtCoord, fLat) ==
  Div(OffsetMeters * CosAngleE6(indexAtCoord) * 10, MetersPerDegLng(fLat))

\* the position the marker of a feature is set to, given how many features
\* of the key have been met so far, this one included
MarkerPosition_fromZero(fLng, fLat, indexAtCoord) ==
  [lng |-> fLng + JitterLng(indexAtCoord + 1, fLat),
   lat |-> fLat + JitterLat(indexAtCoord + 1)]

MarkerPosition_secondDueEast(fLng, fLat, indexAtCoord) ==
  IF indexAtCoord > 1
  THEN [lng |-> fLng + JitterLng(indexAtCoord - 1, fLat),
        lat |-> fLat + JitterLat(indexAtCoord - 1)]
  ELSE [lng |-> fLng, lat |-> fLat]

MarkerPosition(fLng, fLat, indexAtCoord) ==
  IF indexAtCoord > 1
  THEN [lng |-> fLng + JitterLng(indexAtCoord, fLat),
        lat |-> fLat + JitterLat(indexAtCoord)]
  ELSE [lng |-> fLng, lat |-> fLat]

\* props.NAME || props.name || "Unnamed amenity" in the popup of an amenity
\* marker
MarkerPopupName(name) == IF name = "" THEN "Unnamed amenity" ELSE name

\* coordCounts[key] || 0
CountAt(coordCounts, key) ==
  IF key \in DOMAIN coordCounts THEN coordCounts[key] ELSE 0

\* One run of the nearby.forEach callback.  acc carries amenityMarkers,
\* drawable, coordCounts and whether an exception has ended the loop.
\* toFixed on an entry that is not a number raises a TypeError.
LayoutFeature(acc, feature) ==
  IF acc.threw THEN acc
  ELSE IF feature.geomType # "Point" \/ ~feature.coordsArr THEN acc
  ELSE IF Len(feature.coords) < 2
          \/ ~IsNumber(feature.coords[1]) \/ ~IsNumber(feature.coords[2])
       THEN [acc EXCEPT !.threw = TRUE]
  ELSE
    LET fLng == feature.coords[1].v
        fLat == feature.coords[2].v
        key == CoordKey(fLng, fLat)
        indexAtCoord == CountAt(acc.coordCounts, key) + 1
        pos == MarkerPosition(fLng, fLat, indexAtCoord)
    IN [acc EXCEPT
          !.coordCounts = [k \in DOMAIN acc.coordCounts \cup {key} |->
                             IF k = key THEN indexAtCoord
                             ELSE acc.coordCounts[k]],
          !.markers = Append(@, [fid |-> feature.id, lng |-> pos.lng, lat |-> pos.lat,
                                 name |-> MarkerPopupName(feature.name)]),
          !.drawable = Append(@, feature)]

RECURSIVE LayoutAll(_, _, _)
LayoutAll(nearby, i, acc) ==
  IF i > Len(nearby) THEN acc
  ELSE LayoutAll(nearby, i + 1, LayoutFeature(acc, nearby[i]))

EmptyCounts == [k \in {} |-> 0]

\* The whole function: the value returned (ret), amenityMarkers afterwards,
\* and whether it raised.  map is hdbMap (FALSE when initMapbox found no
\* map element), markers is amenityMarkers before the call.
showNearbyAmenitiesOnMap_noClear(map, cache, markers, lat, lng, radiusMeters) ==
  IF ~map THEN [ret |-> <<>>, markers |-> markers, threw |-> FALSE]
  ELSE
    LET nearby == getNearbyAmenities(cache, lat, lng, radiusMeters)
    IN IF nearby = <<>>
       THEN [ret |-> <<>>, markers |-> markers, threw |-> FALSE]
       ELSE LET acc == LayoutAll(nearby, 1,
                         [markers |-> markers, drawable |-> <<>>,
                          coordCounts |-> EmptyCounts, threw |-> FALSE])
            IN [ret |-> IF acc.threw THEN <<>> ELSE acc.drawable,
                markers |-> acc.markers, threw |-> acc.threw]

showNearbyAmenitiesOnMap(map, cache, markers, lat, lng, radiusMeters) ==
  IF ~map THEN [ret |-> <<>>, markers |-> markers, threw |-> FALSE]
  ELSE
    LET nearby == getNearbyAmenities(cache, lat, lng, radiusMeters)
    IN IF nearby = <<>>
       THEN [ret |-> <<>>, markers |-> <<>>, threw |-> FALSE]
       ELSE LET acc == LayoutAll(nearby, 1,
                         [markers |-> <<>>, drawable |-> <<>>,
                          coordCounts |-> EmptyCounts, threw |-> FALSE])
            IN [ret |-> IF acc.threw THEN <<>> ELSE acc.drawable,
                markers |-> acc.markers, threw |-> acc.threw]

\* --------------------------------------------------- mapboxgl.LngLatBounds
\* new mapboxgl.LngLatBounds(): no corner set
EmptyBounds ==
  [empty |-> TRUE, minLng |-> 0, minLat |-> 0, maxLng |-> 0, maxLat |-> 0]

\* new mapboxgl.LngLatBounds(c, c)
BoundsAt(c) ==
  [empty |-> FALSE, minLng |-> c.lng, minLat |-> c.lat,
   maxLng |-> c.lng, maxLat |-> c.lat]

\* bounds.extend(c) as the call sites use it: the south-west corner takes the
\* smaller and the north-east corner the larger value on each axis
Extend_northEastOnly(b, c) ==
  IF b.empty THEN BoundsAt(c)
  ELSE [b EXCEPT !.maxLng = Max(@, c.lng), !.maxLat = Max(@, c.lat)]

Extend(b, c) ==
  IF b.empty THEN BoundsAt(c)
  ELSE [empty |-> FALSE,
        minLng |-> Min(b.minLng, c.lng), minLat |-> Min(b.minLat, c.lat),
        maxLng |-> Max(b.maxLng, c.lng), maxLat |-> Max(b.maxLat, c.lat)]

RECURSIVE ExtendAll(_, _, _)
ExtendAll(b, cs, i) ==
  IF i > Len(cs) THEN b ELSE ExtendAll(Extend(b, cs[i]), cs, i + 1)

\* what a map function reports besides the markers: whether it raised,
\* whether it called fitBounds and with which bounds, and the points it had
\* collected for the bounds
NoFit == [threw |-> FALSE, fit |-> FALSE, bounds |-> EmptyBounds, points |-> <<>>]

\* ------------------------------------------------------ showAmenitiesOnMap
\* an entry missing from a short coordinate array
UndefE == [k |-> "undef", v |-> 0]

EntryAt(cs, i) == IF i <= Len(cs) THEN cs[i] ELSE UndefE

\* One run of the geojson.features.forEach callback.  The pair is pushed on
\* coordsList before lng.toFixed(5) and lat.toFixed(5) are evaluated, which
\* raise a TypeError on anything that is not a number.
DrawAmenity(acc, feature) ==
  IF acc.threw THEN acc
  ELSE IF feature.geomType # "Point" \/ ~feature.coordsArr THEN acc
  ELSE
    LET lng == EntryAt(feature.coords, 1)
        lat == EntryAt(feature.coords, 2)
        pushed == [acc EXCEPT !.coordsList = Append(@, [lng |-> lng.v, lat |-> lat.v])]
    IN IF ~IsNumber(lng) \/ ~IsNumber(lat)
       THEN [pushed EXCEPT !.threw = TRUE]
       ELSE [pushed EXCEPT
               !.markers = Append(@, [fid |-> feature.id, lng |-> lng.v, lat |-> lat.v,
                                      name |-> MarkerPopupName(feature.name)])]

RECURSIVE DrawAmenities(_, _, _)
DrawAmenities(features, i, acc) ==
  IF i > Len(features) THEN acc
  ELSE DrawAmenities(features, i + 1, DrawAmenity(acc, features[i]))

\* the fit at the end of showAmenitiesOnMap: only for a non-empty coordsList
FitCoordsList(coordsList) ==
  IF Len(coordsList) > 0
  THEN [threw |-> FALSE, fit |-> TRUE,
        bounds |-> ExtendAll(BoundsAt(coordsList[1]), coordsList, 1),
        points |-> coordsList]
  ELSE [NoFit EXCEPT !.points = coordsList]

\* geojson: [hasFeatures, features]; markers: amenityMarkers before the call
showAmenitiesOnMap(map, geojson, markers) ==
  IF ~map \/ ~geojson.hasFeatures THEN [markers |-> markers, res |-> NoFit]
  ELSE
    LET acc == DrawAmenities(geojson.features, 1,
                 [markers |-> <<>>, coordsList |-> <<>>, threw |-> FALSE])
    IN [markers |-> acc.markers,
        res |-> IF acc.threw
                THEN [NoFit EXCEPT !.threw = TRUE, !.points = acc.coordsList]
                ELSE FitCoordsList(acc.coordsList)]

\* ------------------------------------------------------- showListingsOnMap
\* !listing.latitude || !listing.longitude: null (and 0) are skipped
HasCoords(listing) ==
  /\ listing.latitude.k = "num" /\ listing.latitude.v # 0
  /\ listing.longitude.k = "num" /\ listing.longitude.v # 0

\* One run of the listings.forEach callback: a marker and a bounds.extend per
\* listing with coordinates
DrawListing(acc, listing) ==
  IF ~HasCoords(listing) THEN acc
  ELSE LET c == [lng |-> listing.longitude.v, lat |-> listing.latitude.v]
       IN [markers |-> Append(acc.markers, [lid |-> listing.id, lng |-> c.lng, lat |-> c.lat,
                                           popupOpen |-> FALSE, act |-> 0]),
           bounds |-> Extend(acc.bounds, c),
           points |-> Append(acc.points, c)]

RECURSIVE DrawListings(_, _, _)
DrawListings(listings, i, acc) ==
  IF i > Len(listings) THEN acc
  ELSE DrawListings(listings, i + 1, DrawListing(acc, listings[i]))

\* if (!bounds.isEmpty()) hdbMap.fitBounds(bounds, ...)
FitUnlessEmpty(bounds, points) ==
  IF ~bounds.empty
  THEN [threw |-> FALSE, fit |-> TRUE, bounds |-> bounds, points |-> points]
  ELSE [NoFit EXCEPT !.points = points]

\* g: the marker globals [listingMarkers, amenityMarkers, compareTownMarkers,
\* currentListingPopup]; the result carries them after the call (drew tells
\* whether the function got past its guard)
showListingsOnMap_keepsAmenities(map, listings, g) ==
  IF ~map \/ Len(listings) = 0 THEN [g |-> g, res |-> NoFit, drew |-> FALSE]
  ELSE
    LET acc == DrawListings(listings, 1,
                 [markers |-> <<>>, bounds |-> EmptyBounds, points |-> <<>>])
    IN [g |-> [listingMarkers |-> acc.markers,
               amenityMarkers |-> g.amenityMarkers,
               compareTownMarkers |-> <<>>,
               currentListingPopup |-> 0],
        res |-> FitUnlessEmpty(acc.bounds, acc.points),
        drew |-> TRUE]

showListingsOnMap(map, listings, g) ==
  IF ~map \/ Len(listings) = 0 THEN [g |-> g, res |-> NoFit, drew |-> FALSE]
  ELSE
    LET acc == DrawListings(listings, 1,
                 [markers |-> <<>>, bounds |-> EmptyBounds, points |-> <<>>])
    IN [g |-> [listingMarkers |-> acc.markers,
               amenityMarkers |-> <<>>,
               compareTownMarkers |-> <<>>,
               currentListingPopup |-> 0],
        res |-> FitUnlessEmpty(acc.bounds, acc.points),
        drew |-> TRUE]

\* --------------------------------------------- highlightComparedTownsOnMap
\* Number.isFinite of a raw value after `typeof raw === "number" ? raw :
\* parseFloat(raw)`: a number or a numeric string passes, null does not
IsFiniteParsed(e) == e.k \in {"num", "str"}

\* extendCoord: a coordinate whose two parsed entries are finite starts the
\* bounds or extends them; acc is [bounds, points], bounds.empty standing
\* for the `bounds = null` the function starts with
ExtendCoord(acc, coord) ==
  IF ~IsFiniteParsed(coord.lng) \/ ~IsFiniteParsed(coord.lat) THEN acc
  ELSE LET c == [lng |-> coord.lng.v, lat |-> coord.lat.v]
       IN [bounds |-> Extend(acc.bounds, c), points |-> Append(acc.points, c)]

RECURSIVE ExtendRing(_, _, _)
ExtendRing(acc, ring, i) ==
  IF i > Len(ring) THEN acc ELSE ExtendRing(ExtendCoord(acc, ring[i]), ring, i + 1)

RECURSIVE ExtendRings(_, _, _)
ExtendRings(acc, rings, i) ==
  IF i > Len(rings) THEN acc
  ELSE ExtendRings(ExtendRing(acc, rings[i], 1), rings, i + 1)

\* One run of the comparison.forEach callback.  town.geomType is the type of
\* town.boundary ("none" when the town has neither boundary nor geometry);
\* town.rings are the rings of a Polygon, or one ring per feature of a
\* FeatureCollection.  acc: [bounds, points, markers, features].
HighlightTown(acc, town) ==
  LET hasGeom == town.geomType # "none"
      polygonal == town.geomType \in {"Polygon", "FeatureCollection"}
      a1 == IF polygonal
            THEN LET e == ExtendRings([bounds |-> acc.bounds, points |-> acc.points],
                                      town.rings, 1)
                 IN [acc EXCEPT !.bounds = e.bounds, !.points = e.points,
                                !.features = @ + (IF town.geomType = "Polygon"
                                                  THEN 1 ELSE Len(town.rings))]
            ELSE acc
      centreOk == IsFiniteParsed(town.center_lng) /\ IsFiniteParsed(town.center_lat)
      c == [lng |-> town.center_lng.v, lat |-> town.center_lat.v]
  IN IF ~centreOk THEN a1
     ELSE LET a2 == [a1 EXCEPT !.markers = Append(@, [tid |-> town.id,
                                                       lng |-> c.lng, lat |-> c.lat])]
          IN IF ~hasGeom
             THEN [a2 EXCEPT !.bounds = Extend(@, c), !.points = Append(@, c)]
             ELSE a2

RECURSIVE HighlightTowns(_, _, _)
HighlightTowns(comparison, i, acc) ==
  IF i > Len(comparison) THEN acc
  ELSE HighlightTowns(comparison, i + 1, HighlightTown(acc, comparison[i]))

\* markers: compareTownMarkers before the call
highlightComparedTownsOnMap(map, comparison, markers) ==
  IF ~map \/ Len(comparison) = 0 THEN [markers |-> markers, res |-> NoFit]
  ELSE
    LET acc == HighlightTowns(comparison, 1,
                 [bounds |-> EmptyBounds, points |-> <<>>,
                  markers |-> <<>>, features |-> 0])
    IN [markers |-> acc.markers, res |-> FitUnlessEmpty(acc.bounds, acc.points)]

\* ------------------------------------------------------------ server data
\* the amenity classes in the order bootstrap preloads them
AmenityClasses == <<"MRT_STATION", "SCHOOL", "CLINIC", "SUPERMARKET", "PARK">>

\* What GET /api/amenities?class=cls answers.  Eight features share the
\* rounded coordinate of P (3 differs from the others below the sixth
\* decimal); 5 lies exactly 600 m north of P; 9 is not a Point; 10 has a
\* one-entry coordinate array; 11 has its coordinates as numeric strings.
ServerAmenities(cls) ==
  CASE cls = "MRT_STATION" ->
         << PointF(1, cls, "Hub MRT", PLng, PLat),
            Feature(11, cls, "East MRT", "Point", TRUE, <<StrE(QLng), StrE(QLat)>>) >>
    [] cls = "SCHOOL" ->
         << PointF(2, cls, "Hub Primary", PLng, PLat),
            PointF(3, cls, "", PLng + 3, PLat) >>
    [] cls = "CLINIC" ->
         << PointF(4, cls, "Hub Clinic", PLng, PLat),
            PointF(5, cls, "North Clinic", PLng, PLat + 54000),
            PointF(12, cls, "East Clinic", QLng, QLat) >>
    [] cls = "SUPERMARKET" ->
         << PointF(6, cls, "Hub Mart", PLng, PLat),
            PointF(7, cls, "Hub Grocer", PLng, PLat),
            PointF(15, cls, "Hub Bazaar", PLng, PLat) >>
    [] cls = "PARK" ->
         << Feature(9, cls, "Reserve", "Polygon", TRUE, <<>>),
            Feature(10, cls, "Corner Park", "Point", TRUE, <<NumE(QLng)>>),
            PointF(8, cls, "Hub Park", PLng, PLat) >>

\* listings as POST /api/listings/search returns them
Listing(id, lng, lat, price) ==
  [id |-> id, longitude |-> lng, latitude |-> lat, price |-> price,
   resale_price |-> UndefE, estimated_price |-> UndefE]

\* the empty string
EmptyStrE == [k |-> "empty", v |-> 0]

ListingA == Listing(1, NumE(PLng), NumE(PLat), NumE(400000))
ListingB == Listing(2, NumE(QLng), NumE(QLat), NumE(900000))
ListingC == Listing(3, NullE, NullE, NumE(300000))

\* the result lists a search may return
ListingResults ==
  { <<>>, <<ListingA, ListingB>>, <<ListingC, ListingA, ListingB>>, <<ListingC>> }

\* towns as POST /api/compare/towns returns them
Town(id, gt, rings, clng, clat) ==
  [id |-> id, geomType |-> gt, rings |-> rings,
   center_lng |-> clng, center_lat |-> clat]

Coord(lng, lat) == [lng |-> NumE(lng), lat |-> NumE(lat)]

TownPoly ==
  Town(1, "Polygon",
       << << Coord(PLng, PLat + 30000), Coord(PLng + 20000, PLat - 10000),
             [lng |-> NullE, lat |-> NullE], Coord(PLng - 20000, PLat - 10000) >> >>,
       NumE(PLng), NumE(PLat))
TownCentreOnly == Town(2, "none", <<>>, StrE(QLng), StrE(QLat))
TownOtherGeom == Town(3, "Point", <<>>, NumE(QLng), NumE(QLat + 50000))
TownBare == Town(4, "none", <<>>, NullE, NullE)
TownEmptyFC == Town(5, "FeatureCollection", <<>>, NullE, NullE)

Comparisons ==
  { <<TownCentreOnly>>, <<TownPoly, TownCentreOnly>>, <<TownOtherGeom>>,
    <<TownEmptyFC, TownBare>> }

\* ---------------------------------------------------------- affordability
\* A form field is what the user typed: nothing, text that is no number,
\* "Infinity", or a number.  Units: income and expenses in dollars, interest
\* in hundredths of a percent, tenure in years, down payment in percent.
EmptyV == [k |-> "empty", v |-> 0]
TextV == [k |-> "text", v |-> 0]
InfV == [k |-> "inf", v |-> 0]
NumV(v) == [k |-> "num", v |-> v]

\* parseFloat(value) || dflt: NaN and 0 give the default, Infinity stays
ParseFloatOr(field, dflt) ==
  IF field.k = "inf" THEN InfV
  ELSE IF field.k = "num" /\ field.v # 0 THEN NumV(field.v)
  ELSE NumV(dflt)

\* parseInt(value) || dflt: parseInt reads no "Infinity"
ParseIntOr(field, dflt) ==
  IF field.k = "num" /\ field.v # 0 THEN NumV(field.v) ELSE NumV(dflt)

\* the payload the click handler builds
Payload(form) ==
  [income |-> ParseFloatOr(form.income, 0),
   expenses |-> ParseFloatOr(form.expenses, 0),
   interest |-> ParseFloatOr(form.interest, 260),
   tenure_years |-> ParseIntOr(form.tenure, 25),
   down_payment_pct |-> ParseFloatOr(form.downpayment, 20)]

\* JSON.stringify of one number: Infinity is written as null
JsonNumber(x) == IF x.k = "inf" THEN NullE ELSE NumE(x.v)

\* JSON.stringify(payload): the request body, and the signature compared
\* with lastAffordSignature
Stringify(payload) ==
  [income |-> JsonNumber(payload.income),
   expenses |-> JsonNumber(payload.expenses),
   interest |-> JsonNumber(payload.interest),
   tenure_years |-> JsonNumber(payload.tenure_years),
   down_payment_pct |-> JsonNumber(payload.down_payment_pct)]

\* lastAffordSignature before the first click
NoSignature ==
  [income |-> UndefE, expenses |-> UndefE, interest |-> UndefE,
   tenure_years |-> UndefE, down_payment_pct |-> UndefE]

\* The server's evaluate (POST /api/affordability), from the specification
\* of the calculator: the input is valid when every field is a finite
\* number, income and expenses are not negative, the tenure is positive and
\* the down payment lies in [0, 100).
ValidInput(body) ==
  /\ \A f \in {"income", "expenses", "interest", "tenure_years", "down_payment_pct"} :
        body[f].k = "num"
  /\ body.income.v >= 0 /\ body.expenses.v >= 0 /\ body.interest.v >= 0
  /\ body.tenure_years.v > 0
  /\ body.down_payment_pct.v >= 0 /\ body.down_payment_pct.v < 100

\* (1 + monthly_rate)^n in 1e-4, by squaring
RECURSIVE PowE4(_, _)
PowE4(baseE4, n) ==
  IF n = 0 THEN 10000
  ELSE LET h == PowE4(baseE4, n \div 2)
           sq == Div(h * h, 10000)
       IN IF n % 2 = 0 THEN sq ELSE Div(sq * baseE4, 10000)

\* (1 - (1 + monthly_rate)^(-n)) / monthly_rate, in 1e-4
AnnuityE4(n, rateE4) ==
  Div((10000 - Div(100000000, PowE4(10000 + rateE4, n))) * 10000, rateE4)

Evaluate_zeroRateYears(body) ==
  LET income == body.income.v
      max_monthly_payment == Div(30 * income, 100)
      n == body.tenure_years.v * 12
      monthly_rateE4 == Div(body.interest.v, 12)
      max_loan_amount ==
        IF monthly_rateE4 = 0 THEN max_monthly_payment * body.tenure_years.v
        ELSE Div(max_monthly_payment * Div(AnnuityE4(n, monthly_rateE4), 100), 100)
      max_property_value ==
        Div(max_loan_amount * 100, 100 - body.down_payment_pct.v)
  IN [max_monthly_payment |-> NumE(max_monthly_payment),
      max_loan_amount |-> NumE(max_loan_amount),
      max_property_value |-> NumE(max_property_value),
      down_payment_required |-> NumE(max_property_value - max_loan_amount),
      affordable |-> (income - body.expenses.v >= max_monthly_payment)]

Evaluate(body) ==
  LET income == body.income.v
      max_monthly_payment == Div(30 * income, 100)
      n == body.tenure_years.v * 12
      monthly_rateE4 == Div(body.interest.v, 12)
      max_loan_amount ==
        IF monthly_rateE4 = 0 THEN max_monthly_payment * n
        ELSE Div(max_monthly_payment * Div(AnnuityE4(n, monthly_rateE4), 100), 100)
      max_property_value ==
        Div(max_loan_amount * 100, 100 - body.down_payment_pct.v)
  IN [max_monthly_payment |-> NumE(max_monthly_payment),
      max_loan_amount |-> NumE(max_loan_amount),
      max_property_value |-> NumE(max_property_value),
      down_payment_required |-> NumE(max_property_value - max_loan_amount),
      affordable |-> (income - body.expenses.v >= max_monthly_payment)]

\* the fields of a response body that carries no figures (ok: false)
NoFigures ==
  [max_monthly_payment |-> UndefE, max_loan_amount |-> UndefE,
   max_property_value |-> UndefE, down_payment_required |-> UndefE,
   affordable |-> FALSE]

\* What postJSON("/api/affordability", body) can come back with: it throws
\* on a network failure or a non-2xx status, else it returns the JSON body.
\* A validation failure travels as a 4xx status or as {ok: false}.
AffordReplies(body) ==
  {[kind |-> "throw", ok |-> FALSE, figures |-> NoFigures]}
  \cup (IF ValidInput(body)
        THEN {[kind |-> "json", ok |-> TRUE, figures |-> Evaluate(body)]}
        ELSE {[kind |-> "json", ok |-> FALSE, figures |-> NoFigures]})

\* Math.round(x).toLocaleString() as the result card prints a figure:
\* undefined prints as NaN
Shown(x) == IF x.k = "num" THEN x ELSE [k |-> "nan", v |-> 0]

\* #af-result
NoDisplay ==
  [kind |-> "none", max_property_value |-> UndefE, max_loan_amount |-> UndefE,
   down_payment_required |-> UndefE]

Spinner == [NoDisplay EXCEPT !.kind = "spinner"]

ErrorCard == [NoDisplay EXCEPT !.kind = "error"]

ResultCard(res) ==
  [kind |-> "result",
   max_property_value |-> Shown(res.figures.max_property_value),
   max_loan_amount |-> Shown(res.figures.max_loan_amount),
   down_payment_required |-> Shown(res.figures.down_payment_required)]

\* what the handler leaves in #af-result once postJSON has settled
AffordDisplay_noOkCheck(res) ==
  IF res.kind = "throw" THEN ErrorCard ELSE ResultCard(res)

AffordDisplay(res) ==
  IF res.kind = "throw" THEN ErrorCard
  ELSE IF ~res.ok THEN ErrorCard
  ELSE ResultCard(res)

\* whether the handler goes on to loadAffordableListingsOnMap: the result
\* was shown, the inputs had changed, and max_property_value is a positive
\* number
LoadsListings_ignoresChanged(res, hasChanged) ==
  /\ res.kind = "json" /\ res.ok
  /\ res.figures.max_property_value.k = "num"
  /\ res.figures.max_property_value.v > 0

LoadsListings(res, hasChanged) ==
  /\ res.kind = "json" /\ res.ok /\ hasChanged
  /\ res.figures.max_property_value.k = "num"
  /\ res.figures.max_property_value.v > 0

\* a ?? b: a unless it is null or undefined
Nullish(a, b) == IF a.k \in {"null", "undef"} THEN b ELSE a

\* the number a price candidate stands for: a number is itself, a non-empty
\* string is parsed, anything else is `none` (NaN in the filter, null in the
\* popup)
NaNE == [k |-> "nan", v |-> 0]

PriceOf(candidate, none) ==
  IF candidate.k = "num" THEN candidate
  ELSE IF candidate.k = "str" THEN NumE(candidate.v)
  ELSE none

\* listing.price ?? listing.resale_price ?? listing.estimated_price
FilterCandidate(listing) ==
  Nullish(Nullish(listing.price, listing.resale_price), listing.estimated_price)

\* the price loadAffordableListingsOnMap filters on, and its filter:
\* price && !Number.isNaN(price) && price <= maxPropertyValue
IsAffordable(listing, maxPropertyValue) ==
  LET price == PriceOf(FilterCandidate(listing), NaNE)
  IN /\ price.k = "num"
     /\ price.v # 0
     /\ price.v <= maxPropertyValue

\* the price the popup of a listing shows: the first of the three fields
\* that is not undefined, null or ''
PopupCandidate(listing) ==
  LET present(v) == v.k \notin {"undef", "null", "empty"}
  IN IF present(listing.price) THEN listing.price
     ELSE IF present(listing.resale_price) THEN listing.resale_price
     ELSE IF present(listing.estimated_price) THEN listing.estimated_price
     ELSE UndefE

PopupPrice(listing) == PriceOf(PopupCandidate(listing), NullE)

AffordableListings(results, maxPropertyValue) ==
  SelectSeq(results, LAMBDA l : IsAffordable(l, maxPropertyValue))

\* the forms a user submits
Form(income, expenses, interest, tenure, downpayment) ==
  [income |-> income, expenses |-> expenses, interest |-> interest,
   tenure |-> tenure, downpayment |-> downpayment]

Forms ==
  { Form(EmptyV, EmptyV, EmptyV, EmptyV, EmptyV),
    Form(NumV(7500), NumV(2000), NumV(260), NumV(25), NumV(20)),
    Form(NumV(7500), NumV(2000), NumV(260), NumV(25), NumV(100)),
    Form(NumV(7500), NumV(2000), NumV(260), NumV(25), NumV(150)),
    Form(NumV(7500), NumV(2000), NumV(260), NumV(-5), NumV(20)),
    Form(InfV, TextV, NumV(260), NumV(2), NumV(20)) }

\* ------------------------------------------------------------------ state
VARIABLES
  hdbMap,               \* TRUE once initMapbox has created the map
  bootPc,               \* where bootstrap stands: "meta", "preload", "ready", "failed"
  clsIdx,               \* preload requests sent so far: the class being fetched
  fetched,              \* per class, whether its preload fetch succeeded
  mergedFeatures,       \* the preload's local mergedFeatures
  amenitiesData,        \* the amenities cache: [isNull, features]
  panelsReady,          \* the panels' click handlers are registered
  amenityMarkers,
  listingMarkers,
  compareTownMarkers,
  currentListingPopup,  \* 0 for null, else the listing on whose marker the popup sits
  cards,                \* the listing cards in #listing-results
  lastAffordSignature,
  afDisplay,            \* #af-result
  afPending,            \* affordability requests in flight: [act, body, hasChanged,
                        \* afterError: the card showed an error when clicked]
  afLoadPending,        \* listing loads of loadAffordableListingsOnMap in flight
  listPending,          \* listing searches in flight: the clicks that sent them
  amenPending,          \* amenity panel fetches in flight
  cmpPending,           \* town comparisons in flight
  clicks,               \* user clicks so far
  out                   \* what the last handler did

vars ==
  << hdbMap, bootPc, clsIdx, fetched, mergedFeatures, amenitiesData, panelsReady,
     amenityMarkers, listingMarkers, compareTownMarkers, currentListingPopup,
     cards, lastAffordSignature, afDisplay, afPending, afLoadPending,
     listPending, amenPending, cmpPending, clicks, out >>

NullCache == [isNull |-> TRUE, features |-> <<>>]

\* the layer ids of drawn town boundaries: only showTownBoundariesOnMap
\* pushes to the list, and nothing calls that function
townPolygons == <<>>

FeatureCollection(features) == [isNull |-> FALSE, features |-> features]

NoOut ==
  [op |-> "none", threw |-> FALSE, fit |-> FALSE, bounds |-> EmptyBounds,
   points |-> <<>>, lat |-> 0, lng |-> 0, radius |-> 0,
   cache |-> NullCache, bootPc |-> "meta", input |-> <<>>, ret |-> <<>>,
   body |-> NoSignature, reply |-> "none", before |-> <<>>, listed |-> <<>>,
   card |-> 0, act |-> 0, max |-> 0]

\* the record of a map function that ended with (or without) a fit
FitOut(op, input, res) ==
  [NoOut EXCEPT !.op = op, !.input = input, !.threw = res.threw,
                !.fit = res.fit, !.bounds = res.bounds, !.points = res.points]

\* the marker globals as showListingsOnMap takes and leaves them
Globals ==
  [listingMarkers |-> listingMarkers, amenityMarkers |-> amenityMarkers,
   compareTownMarkers |-> compareTownMarkers,
   currentListingPopup |-> currentListingPopup]

SetGlobals(g) ==
  /\ listingMarkers' = g.listingMarkers
  /\ amenityMarkers' = g.amenityMarkers
  /\ compareTownMarkers' = g.compareTownMarkers
  /\ currentListingPopup' = g.currentListingPopup

\* clearListingMarkers(); clearAmenityMarkers()
ClearListingAndAmenityMarkers(g) ==
  [g EXCEPT !.listingMarkers = <<>>, !.currentListingPopup = 0,
            !.amenityMarkers = <<>>]

Init ==
  /\ hdbMap \in BOOLEAN
  /\ bootPc = "meta"
  /\ clsIdx = 0
  /\ fetched = <<>>
  /\ mergedFeatures = <<>>
  /\ amenitiesData = NullCache
  /\ panelsReady = FALSE
  /\ amenityMarkers = <<>>
  /\ listingMarkers = <<>>
  /\ compareTownMarkers = <<>>
  /\ currentListingPopup = 0
  /\ cards = <<>>
  /\ lastAffordSignature = NoSignature
  /\ afDisplay = NoDisplay
  /\ afPending = <<>>
  /\ afLoadPending = <<>>
  /\ listPending = <<>>
  /\ amenPending = 0
  /\ cmpPending = 0
  /\ clicks = 0
  /\ out = NoOut

\* -------------------------------------------------------------- bootstrap
UiUnchanged ==
  UNCHANGED << amenityMarkers, listingMarkers, compareTownMarkers,
               currentListingPopup, cards, lastAffordSignature, afDisplay,
               afPending, afLoadPending, listPending, amenPending, cmpPending,
               clicks, out >>

\* how many preload requests have been sent once `settled` of them have
\* settled: the loop awaits each getJSON before it sends the next
PreloadSent_allAtOnce(settled) == Len(AmenityClasses)

PreloadSent(settled) == settled + 1

\* await getJSON("/api/meta") resolves: the preload starts with the first class
BootMetaOk ==
  /\ bootPc = "meta"
  /\ bootPc' = "preload"
  /\ clsIdx' = PreloadSent(0)
  /\ UNCHANGED << hdbMap, fetched, mergedFeatures, amenitiesData, panelsReady >>
  /\ UiUnchanged

\* await getJSON("/api/meta") rejects: the outer catch alerts, nothing is set up
BootMetaFail ==
  /\ bootPc = "meta"
  /\ bootPc' = "failed"
  /\ UNCHANGED << hdbMap, clsIdx, fetched, mergedFeatures, amenitiesData, panelsReady >>
  /\ UiUnchanged

\* amenitiesData after the fetch of one class has settled: the assignment
\* stands after the loop, so only the last class leads to it
CacheAfterFetch_insideLoop(cache, merged, last) == FeatureCollection(merged)

CacheAfterFetch(cache, merged, last) ==
  IF last THEN FeatureCollection(merged) ELSE cache

\* the setup...Panel calls stand after the preload
PanelsAfterFetch_beforePreload(last) == TRUE

PanelsAfterFetch(last) == last

\* where bootstrap stands once the fetch of a class has settled: the inner
\* catch keeps a failure inside the loop
BootAfterFetch_failureAborts(ok, last) ==
  IF ~ok THEN "failed" ELSE IF last THEN "ready" ELSE "preload"

BootAfterFetch(ok, last) == IF last THEN "ready" ELSE "preload"

\* the classes whose fetch is let fail: the first, the last and one between
FailingClasses == {"MRT_STATION", "CLINIC", "PARK"}

\* The oldest preload fetch in flight settles (ok: its features are merged; failed:
\* the inner catch warns) and the loop goes on; after the last class the
\* cache is assigned and the panels are set up.
BootPreloadClass(ok) ==
  /\ bootPc = "preload"
  /\ \/ ok
     \/ /\ AmenityClasses[Len(fetched) + 1] \in FailingClasses
        /\ Cardinality({i \in 1..Len(fetched) : ~fetched[i]}) < MaxFetchFailures
  /\ LET settled == Len(fetched) + 1
         last == settled = Len(AmenityClasses)
         merged == IF ok THEN mergedFeatures \o ServerAmenities(AmenityClasses[settled])
                   ELSE mergedFeatures
     IN /\ mergedFeatures' = merged
        /\ fetched' = Append(fetched, ok)
        /\ amenitiesData' = CacheAfterFetch(amenitiesData, merged, last)
        /\ panelsReady' = PanelsAfterFetch(last)
        /\ bootPc' = BootAfterFetch(ok, last)
        /\ clsIdx' = IF last THEN clsIdx ELSE PreloadSent(settled)
  /\ UNCHANGED hdbMap
  /\ UiUnchanged

BootUnchanged ==
  UNCHANGED << hdbMap, bootPc, clsIdx, fetched, mergedFeatures, panelsReady >>

\* ------------------------------------------------------ proximity lookups
\* the record of one showNearbyAmenitiesOnMap call
LookupOut(lat, lng, radiusMeters, r) ==
  [NoOut EXCEPT !.op = "showNearbyAmenitiesOnMap",
                !.lat = lat, !.lng = lng, !.radius = radiusMeters,
                !.cache = amenitiesData, !.bootPc = bootPc,
                !.input = getNearbyAmenities(amenitiesData, lat, lng, radiusMeters),
                !.ret = r.ret, !.threw = r.threw, !.before = amenityMarkers]

\* props.NAME || props.name || "Amenity" in the list of nearby amenities of
\* a listing popup
ListedName(name) == IF name = "" THEN "Amenity" ELSE name

\* the names in that list, one per feature the layout returned
AmenitiesHtml(nearby) == [i \in 1..Len(nearby) |-> ListedName(nearby[i].name)]

\* the record of a click that ran the lookup and opened the listing popup
PopupOut(lat, lng, r) ==
  [LookupOut(lat, lng, DefaultRadius, r) EXCEPT
     !.listed = IF r.threw THEN <<>> ELSE AmenitiesHtml(r.ret)]

\* popup.remove() of the popup that `current` refers to: it leaves the map
RemovePopup(markers, current) ==
  [j \in 1..Len(markers) |->
     IF markers[j].lid = current THEN [markers[j] EXCEPT !.popupOpen = FALSE]
     ELSE markers[j]]

\* popup.on("close"): currentListingPopup is nulled if it is the popup that
\* closed
OnClose_keepsCurrent(current, lid) == current

OnClose(current, lid) == IF current = lid THEN 0 ELSE current

\* if (currentListingPopup) { currentListingPopup.remove();
\* currentListingPopup = null; } at the head of both click handlers
ClosePrevious(markers, current) ==
  [markers |-> IF current # 0 THEN RemovePopup(markers, current) ELSE markers,
   current |-> 0]

\* marker.setPopup(popup); marker.togglePopup() on markers[i]: the popup
\* opens, and its "open" handler removes another current popup and makes
\* this one current
OpenPopup(markers, current, i) ==
  LET others == IF current # 0 /\ current # markers[i].lid
                THEN RemovePopup(markers, current) ELSE markers
  IN [markers |-> [others EXCEPT ![i].popupOpen = TRUE],
      current |-> markers[i].lid]

\* Click on the house marker of a drawn listing: the open popup is closed,
\* the amenities within 600 m are laid out, and the popup of this listing
\* opens (unless the layout raised and ended the handler).
ListingMarkerClick(i) ==
  /\ clicks < MaxClicks
  /\ hdbMap
  /\ i \in 1..Len(listingMarkers)
  /\ LET m == listingMarkers[i]
         closed == ClosePrevious(listingMarkers, currentListingPopup)
         r == showNearbyAmenitiesOnMap(hdbMap, amenitiesData, amenityMarkers,
                                       m.lat, m.lng, DefaultRadius)
         opened == OpenPopup(closed.markers, closed.current, i)
     IN /\ amenityMarkers' = r.markers
        /\ listingMarkers' = IF r.threw THEN closed.markers ELSE opened.markers
        /\ currentListingPopup' = IF r.threw THEN closed.current ELSE opened.current
        /\ out' = PopupOut(m.lat, m.lng, r)
  /\ clicks' = clicks + 1
  /\ amenitiesData' = amenitiesData
  /\ BootUnchanged
  /\ UNCHANGED << compareTownMarkers, cards, lastAffordSignature,
                  afDisplay, afPending, afLoadPending, listPending, amenPending,
                  cmpPending >>

\* Click on the i-th listing card: nothing happens without coordinates, a
\* map or a marker at index i; else as the marker click, the popup opening
\* on listingMarkers[i].
ListingCardClick(i) ==
  /\ clicks < MaxClicks
  /\ i \in 1..Len(cards)
  /\ clicks' = clicks + 1
  /\ amenitiesData' = amenitiesData
  /\ BootUnchanged
  /\ UNCHANGED << compareTownMarkers, cards, lastAffordSignature,
                  afDisplay, afPending, afLoadPending, listPending, amenPending,
                  cmpPending >>
  /\ IF ~HasCoords(cards[i]) \/ ~hdbMap \/ i > Len(listingMarkers)
     THEN /\ UNCHANGED << amenityMarkers, listingMarkers, currentListingPopup >>
          /\ out' = [NoOut EXCEPT !.op = "listingCardClick", !.card = cards[i].id]
     ELSE LET lat == cards[i].latitude.v
              lng == cards[i].longitude.v
              closed == ClosePrevious(listingMarkers, currentListingPopup)
              r == showNearbyAmenitiesOnMap(hdbMap, amenitiesData, amenityMarkers,
                                            lat, lng, DefaultRadius)
              opened == OpenPopup(closed.markers, closed.current, i)
          IN /\ amenityMarkers' = r.markers
             /\ listingMarkers' = IF r.threw THEN closed.markers ELSE opened.markers
             /\ currentListingPopup' = IF r.threw THEN closed.current
                                       ELSE opened.current
             /\ out' = [PopupOut(lat, lng, r) EXCEPT !.card = cards[i].id]

\* The user closes the open popup of listingMarkers[j] (its close button, or
\* a click on the map): the popup leaves the map and its "close" handler runs
PopupClose(j) ==
  /\ j \in 1..Len(listingMarkers)
  /\ listingMarkers[j].popupOpen
  /\ listingMarkers' = [listingMarkers EXCEPT ![j].popupOpen = FALSE]
  /\ currentListingPopup' = OnClose(currentListingPopup, listingMarkers[j].lid)
  /\ out' = [NoOut EXCEPT !.op = "popupClose"]
  /\ amenitiesData' = amenitiesData
  /\ BootUnchanged
  /\ UNCHANGED << amenityMarkers, compareTownMarkers, cards, lastAffordSignature,
                  afDisplay, afPending, afLoadPending, listPending, amenPending,
                  cmpPending, clicks >>

\* ---------------------------------------------------------- listing search
RemoveAt(q, i) == SubSeq(q, 1, i - 1) \o SubSeq(q, i + 1, Len(q))

OtherPanelsUnchanged ==
  UNCHANGED << lastAffordSignature, afDisplay, afPending, afLoadPending >>

\* Click on "search listings" with a query: the request is sent
ListingSearchClick ==
  /\ panelsReady
  /\ clicks < MaxClicks
  /\ Len(listPending) < MaxPending
  /\ listPending' = Append(listPending, clicks + 1)
  /\ clicks' = clicks + 1
  /\ amenitiesData' = amenitiesData
  /\ BootUnchanged
  /\ OtherPanelsUnchanged
  /\ UNCHANGED << amenityMarkers, listingMarkers, compareTownMarkers,
                  currentListingPopup, cards, amenPending, cmpPending >>
  /\ out' = [NoOut EXCEPT !.op = "listingSearchClick"]

\* the marker globals after a showListingsOnMap call made for the click
\* numbered act: the markers it drew are that click's
DrawnBy(r, act) ==
  IF ~r.drew THEN r.g
  ELSE [r.g EXCEPT !.listingMarkers =
          [j \in 1..Len(@) |-> [@[j] EXCEPT !.act = act]]]

\* A listing search settles with a result list: a non-empty one is drawn,
\* and the cards are rendered (none for an empty result)
ListingSearchOk(i, results) ==
  /\ i \in 1..Len(listPending)
  /\ listPending' = RemoveAt(listPending, i)
  /\ IF Len(results) > 0
     THEN LET r == showListingsOnMap(hdbMap, results, Globals)
          IN /\ SetGlobals(DrawnBy(r, listPending[i]))
             /\ out' = [FitOut("showListingsOnMap", results, r.res)
                          EXCEPT !.act = listPending[i], !.before = amenityMarkers]
     ELSE /\ SetGlobals(Globals)
          /\ out' = [NoOut EXCEPT !.op = "listingSearch", !.act = listPending[i]]
  /\ cards' = results
  /\ amenitiesData' = amenitiesData
  /\ BootUnchanged
  /\ OtherPanelsUnchanged
  /\ UNCHANGED << amenPending, cmpPending, clicks >>

\* A listing search fails (postJSON throws, or ok is false): the error card
\* replaces the result list
ListingSearchFail(i) ==
  /\ i \in 1..Len(listPending)
  /\ listPending' = RemoveAt(listPending, i)
  /\ cards' = <<>>
  /\ out' = [NoOut EXCEPT !.op = "listingSearch", !.reply = "throw"]
  /\ amenitiesData' = amenitiesData
  /\ BootUnchanged
  /\ OtherPanelsUnchanged
  /\ UNCHANGED << amenityMarkers, listingMarkers, compareTownMarkers,
                  currentListingPopup, amenPending, cmpPending, clicks >>

\* ---------------------------------------------------------- amenities panel
\* Click on "load amenities": GET /api/amenities is sent
AmenityPanelClick ==
  /\ panelsReady
  /\ clicks < MaxClicks
  /\ amenPending < MaxPending
  /\ amenPending' = amenPending + 1
  /\ clicks' = clicks + 1
  /\ amenitiesData' = amenitiesData
  /\ BootUnchanged
  /\ OtherPanelsUnchanged
  /\ UNCHANGED << amenityMarkers, listingMarkers, compareTownMarkers,
                  currentListingPopup, cards, listPending, cmpPending >>
  /\ out' = [NoOut EXCEPT !.op = "amenityPanelClick"]

\* the answers of GET /api/amenities?class=...: a class with no amenity, the
\* clinics, the parks, and the two parks that have no usable point
AmenityAnswers ==
  { <<>>, ServerAmenities("CLINIC"), ServerAmenities("PARK"),
    SubSeq(ServerAmenities("PARK"), 1, 2) }

\* The fetch settles with a feature collection, which showAmenitiesOnMap
\* draws; an exception it raises is caught and logged by the handler
AmenityPanelOk(features) ==
  /\ amenPending > 0
  /\ amenPending' = amenPending - 1
  /\ LET r == showAmenitiesOnMap(hdbMap, [hasFeatures |-> TRUE, features |-> features],
                                 amenityMarkers)
     IN /\ amenityMarkers' = r.markers
        /\ out' = FitOut("showAmenitiesOnMap", features, r.res)
  /\ amenitiesData' = amenitiesData
  /\ BootUnchanged
  /\ OtherPanelsUnchanged
  /\ UNCHANGED << listingMarkers, compareTownMarkers, currentListingPopup, cards,
                  listPending, cmpPending, clicks >>

\* The fetch fails or answers a non-2xx status: logged, nothing drawn
AmenityPanelFail ==
  /\ amenPending > 0
  /\ amenPending' = amenPending - 1
  /\ out' = [NoOut EXCEPT !.op = "amenityPanel", !.reply = "throw"]
  /\ amenitiesData' = amenitiesData
  /\ BootUnchanged
  /\ OtherPanelsUnchanged
  /\ UNCHANGED << amenityMarkers, listingMarkers, compareTownMarkers,
                  currentListingPopup, cards, listPending, cmpPending, clicks >>

\* ---------------------------------------------------------- town comparison
CompareClick ==
  /\ panelsReady
  /\ clicks < MaxClicks
  /\ cmpPending < MaxPending
  /\ cmpPending' = cmpPending + 1
  /\ clicks' = clicks + 1
  /\ amenitiesData' = amenitiesData
  /\ BootUnchanged
  /\ OtherPanelsUnchanged
  /\ UNCHANGED << amenityMarkers, listingMarkers, compareTownMarkers,
                  currentListingPopup, cards, listPending, amenPending >>
  /\ out' = [NoOut EXCEPT !.op = "compareClick"]

\* The comparison settles with towns, which are highlighted on the map
CompareOk(comparison) ==
  /\ cmpPending > 0
  /\ cmpPending' = cmpPending - 1
  /\ LET r == highlightComparedTownsOnMap(hdbMap, comparison, compareTownMarkers)
     IN /\ compareTownMarkers' = r.markers
        /\ out' = FitOut("highlightComparedTownsOnMap", comparison, r.res)
  /\ amenitiesData' = amenitiesData
  /\ BootUnchanged
  /\ OtherPanelsUnchanged
  /\ UNCHANGED << amenityMarkers, listingMarkers, currentListingPopup, cards,
                  listPending, amenPending, clicks >>

CompareFail ==
  /\ cmpPending > 0
  /\ cmpPending' = cmpPending - 1
  /\ out' = [NoOut EXCEPT !.op = "compare", !.reply = "throw"]
  /\ amenitiesData' = amenitiesData
  /\ BootUnchanged
  /\ OtherPanelsUnchanged
  /\ UNCHANGED << amenityMarkers, listingMarkers, compareTownMarkers,
                  currentListingPopup, cards, listPending, amenPending, clicks >>

\* ------------------------------------------------------ affordability panel
\* Click on "calculate": the spinner is shown, the payload built; when its
\* signature differs from the last one the listing and amenity markers are
\* cleared and the signature kept; then the request is sent
AffordClick(form) ==
  /\ panelsReady
  /\ clicks < MaxClicks
  /\ Len(afPending) < MaxPending
  /\ LET signature == Stringify(Payload(form))
         hasChanged == signature # lastAffordSignature
     IN /\ IF hasChanged
           THEN /\ SetGlobals(ClearListingAndAmenityMarkers(Globals))
                /\ lastAffordSignature' = signature
           ELSE /\ SetGlobals(Globals)
                /\ lastAffordSignature' = lastAffordSignature
        /\ afPending' = Append(afPending, [act |-> clicks + 1, body |-> signature,
                                        hasChanged |-> hasChanged,
                                        afterError |-> afDisplay.kind = "error"])
  /\ afDisplay' = Spinner
  /\ clicks' = clicks + 1
  /\ amenitiesData' = amenitiesData
  /\ BootUnchanged
  /\ UNCHANGED << cards, afLoadPending, listPending, amenPending, cmpPending >>
  /\ out' = [NoOut EXCEPT !.op = "affordClick"]

\* postJSON("/api/affordability") settles for the i-th request in flight:
\* the card shows the error or the figures, and the listings load is
\* started when the inputs had changed and the value is usable
AffordResponse(i, reply) ==
  /\ i \in 1..Len(afPending)
  /\ reply \in AffordReplies(afPending[i].body)
  /\ afDisplay' = AffordDisplay(reply)
  /\ afPending' = RemoveAt(afPending, i)
  /\ afLoadPending' =
       IF LoadsListings(reply, afPending[i].hasChanged) /\ hdbMap
       THEN Append(afLoadPending, [act |-> afPending[i].act,
                                   max |-> reply.figures.max_property_value.v])
       ELSE afLoadPending
  /\ out' = [NoOut EXCEPT !.op = "affordability", !.body = afPending[i].body,
                          !.reply = reply.kind, !.threw = ~reply.ok,
                          !.act = afPending[i].act]
  /\ amenitiesData' = amenitiesData
  /\ BootUnchanged
  /\ UNCHANGED << amenityMarkers, listingMarkers, compareTownMarkers,
                  currentListingPopup, cards, lastAffordSignature,
                  listPending, amenPending, cmpPending, clicks >>

\* The listings request of loadAffordableListingsOnMap settles with results:
\* those within the value are drawn
AffordListingsOk(i, results) ==
  /\ i \in 1..Len(afLoadPending)
  /\ afLoadPending' = RemoveAt(afLoadPending, i)
  /\ LET affordable == AffordableListings(results, afLoadPending[i].max)
         r == showListingsOnMap(hdbMap, affordable, Globals)
     IN /\ SetGlobals(DrawnBy(r, afLoadPending[i].act))
        /\ out' = [FitOut("showListingsOnMap", affordable, r.res)
                     EXCEPT !.act = afLoadPending[i].act, !.before = amenityMarkers]
  /\ amenitiesData' = amenitiesData
  /\ BootUnchanged
  /\ UNCHANGED << cards, lastAffordSignature, afDisplay, afPending,
                  listPending, amenPending, cmpPending, clicks >>

\* ... or fails: logged, the map stays as it is
AffordListingsFail(i) ==
  /\ i \in 1..Len(afLoadPending)
  /\ afLoadPending' = RemoveAt(afLoadPending, i)
  /\ out' = [NoOut EXCEPT !.op = "loadAffordableListingsOnMap", !.reply = "throw"]
  /\ amenitiesData' = amenitiesData
  /\ BootUnchanged
  /\ UNCHANGED << amenityMarkers, listingMarkers, compareTownMarkers,
                  currentListingPopup, cards, lastAffordSignature, afDisplay,
                  afPending, listPending, amenPending, cmpPending, clicks >>

\* ---------------------------------------------------------- specification
Next ==
  \/ BootMetaOk
  \/ BootMetaFail
  \/ \E ok \in BOOLEAN : BootPreloadClass(ok)
  \/ \E i \in 1..2 : ListingMarkerClick(i)
  \/ \E i \in 1..3 : ListingCardClick(i)
  \/ \E j \in 1..2 : PopupClose(j)
  \/ ListingSearchClick
  \/ \E i \in 1..MaxClicks, results \in ListingResults : ListingSearchOk(i, results)
  \/ \E i \in 1..MaxClicks : ListingSearchFail(i)
  \/ AmenityPanelClick
  \/ \E features \in AmenityAnswers : AmenityPanelOk(features)
  \/ AmenityPanelFail
  \/ CompareClick
  \/ \E comparison \in Comparisons : CompareOk(comparison)
  \/ CompareFail
  \/ \E form \in Forms : AffordClick(form)
  \/ \E i \in 1..MaxClicks, kind \in {"throw", "json"} :
       \E reply \in {r \in AffordReplies(IF i <= Len(afPending) THEN afPending[i].body
                                         ELSE NoSignature) : r.kind = kind} :
         AffordResponse(i, reply)
  \/ \E i \in 1..MaxClicks, results \in ListingResults : AffordListingsOk(i, results)
  \/ \E i \in 1..MaxClicks : AffordListingsFail(i)

Spec == Init /\ [][Next]_vars

\* ------------------------------------ the proximity functions on their own
\* The features the lists are drawn from: three at P's rounded coordinate
\* (one of them off below the sixth decimal), one exactly 600 m north of P
\* and one just beyond, one at Q, and the malformed ones (not a Point, a
\* one-entry array, numeric strings, nulls).
ProxPool ==
  << PointF(5, "CLINIC", "North Clinic", PLng, PLat + 54000),
     PointF(1, "MRT_STATION", "Hub MRT", PLng, PLat),
     Feature(9, "PARK", "Reserve", "Polygon", TRUE, <<>>),
     PointF(13, "CLINIC", "Far Clinic", PLng, PLat + 54200),
     PointF(2, "SCHOOL", "Hub Primary", PLng, PLat),
     Feature(11, "MRT_STATION", "East MRT", "Point", TRUE, <<StrE(QLng), StrE(QLat)>>),
     PointF(12, "CLINIC", "East Clinic", QLng, QLat),
     PointF(3, "SCHOOL", "", PLng + 3, PLat),
     Feature(10, "PARK", "Corner Park", "Point", TRUE, <<NumE(QLng)>>),
     Feature(14, "PARK", "", "Point", FALSE, <<>>) >>

\* the feature lists of at most MaxFeatures distinct features, each a
\* selection from the pool in the pool's order (which is sorted neither by
\* distance nor by identifier)
ProxLists ==
  UNION { { [i \in 1..n |-> ProxPool[idx[i]]] :
              idx \in { s \in [1..n -> 1..Len(ProxPool)] :
                          \A i \in 1..(n - 1) : s[i] < s[i + 1] } }
          : n \in 0..MaxFeatures }

ProxCentres == { [lng |-> PLng, lat |-> PLat], [lng |-> QLng, lat |-> QLat] }

ProxRadii == { 0, DefaultRadius, DefaultRadius + 1 }

InitProx ==
  /\ hdbMap = TRUE
  /\ bootPc = "ready"
  /\ clsIdx = Len(AmenityClasses)
  /\ fetched = <<>>
  /\ mergedFeatures \in ProxLists
  /\ amenitiesData = FeatureCollection(mergedFeatures)
  /\ panelsReady = TRUE
  /\ amenityMarkers = <<>>
  /\ listingMarkers = <<>>
  /\ compareTownMarkers = <<>>
  /\ currentListingPopup = 0
  /\ cards = <<>>
  /\ lastAffordSignature = NoSignature
  /\ afDisplay = NoDisplay
  /\ afPending = <<>>
  /\ afLoadPending = <<>>
  /\ listPending = <<>>
  /\ amenPending = 0
  /\ cmpPending = 0
  /\ clicks = 0
  /\ out = NoOut

ProxUnchanged ==
  UNCHANGED << hdbMap, bootPc, clsIdx, fetched, mergedFeatures, amenitiesData,
               panelsReady, listingMarkers, compareTownMarkers,
               currentListingPopup, cards, lastAffordSignature, afDisplay,
               afPending, afLoadPending, listPending, amenPending, cmpPending >>

\* getNearbyAmenities(lat, lng, radiusMeters) is called
CallGetNearby(c, radiusMeters) ==
  /\ clicks < MaxCalls
  /\ clicks' = clicks + 1
  /\ out' = [NoOut EXCEPT !.op = "getNearbyAmenities",
                          !.lat = c.lat, !.lng = c.lng, !.radius = radiusMeters,
                          !.cache = amenitiesData, !.bootPc = bootPc,
                          !.input = amenitiesData.features,
                          !.ret = getNearbyAmenities(amenitiesData, c.lat, c.lng,
                                                     radiusMeters)]
  /\ UNCHANGED amenityMarkers
  /\ ProxUnchanged

\* showNearbyAmenitiesOnMap(lat, lng, radiusMeters) is called
CallShowNearby(c, radiusMeters) ==
  /\ clicks < MaxCalls
  /\ clicks' = clicks + 1
  /\ LET r == showNearbyAmenitiesOnMap(hdbMap, amenitiesData, amenityMarkers,
                                       c.lat, c.lng, radiusMeters)
     IN /\ amenityMarkers' = r.markers
        /\ out' = LookupOut(c.lat, c.lng, radiusMeters, r)
  /\ ProxUnchanged

NextProx ==
  \/ \E c \in ProxCentres, radiusMeters \in ProxRadii : CallGetNearby(c, radiusMeters)
  \/ \E c \in ProxCentres, radiusMeters \in ProxRadii : CallShowNearby(c, radiusMeters)

SpecProx == InitProx /\ [][NextProx]_vars

\* =================================================================== claims
\* a Point feature whose coordinate array holds two numbers
WellFormedPoint(f) ==
  /\ f.geomType = "Point" /\ f.coordsArr /\ Len(f.coords) >= 2
  /\ IsNumber(f.coords[1]) /\ IsNumber(f.coords[2])

\* the haversine distance from a centre to a Point feature with two entries
FeatureDistance(f, lat, lng) ==
  distanceInMeters(lat, lng, ToNumber(f.coords[2]), ToNumber(f.coords[1]))

\* the place of a feature in a list of distinct features
PositionIn(list, f) == CHOOSE i \in 1..Len(list) : list[i] = f

Occurs(list, f) == \E i \in 1..Len(list) : list[i] = f

\* C1: getNearbyAmenities returns exactly the Point features within
\* radiusMeters of the centre, the one at exactly the radius included, as a
\* subsequence of the loaded list: a well-formed Point feature is returned
\* iff its distance is <= the radius, everything returned is a loaded Point
\* feature within the radius, and the returned features keep the order (and
\* the multiplicity) they have in the loaded list.
C1_NearbyIsExactOrderedSubset ==
  out.op = "getNearbyAmenities" =>
    LET list == out.input
        ret == out.ret
    IN /\ \A i \in 1..Len(list) :
            WellFormedPoint(list[i]) =>
              (Occurs(ret, list[i]) <=>
                 FeatureDistance(list[i], out.lat, out.lng) <= out.radius)
       /\ \A j \in 1..Len(ret) :
            /\ Occurs(list, ret[j])
            /\ ret[j].geomType = "Point" /\ ret[j].coordsArr /\ Len(ret[j].coords) >= 2
            /\ FeatureDistance(ret[j], out.lat, out.lng) <= out.radius
       /\ \A j, k \in 1..Len(ret) :
            j < k => PositionIn(list, ret[j]) < PositionIn(list, ret[k])

\* a call that returned a feature at exactly the radius, kept two features
\* and left a well-formed one out
C1_Witness ==
  /\ out.op = "getNearbyAmenities"
  /\ out.radius = DefaultRadius
  /\ Len(out.ret) = 2
  /\ \E j \in 1..Len(out.ret) :
       FeatureDistance(out.ret[j], out.lat, out.lng) = out.radius
  /\ \E i \in 1..Len(out.input) :
       WellFormedPoint(out.input[i]) /\ ~Occurs(out.ret, out.input[i])

\* the features of a list met up to place p that share the rounded
\* coordinate of the feature at p
SameSpotUpTo(list, p) ==
  { i \in 1..p :
      /\ WellFormedPoint(list[i])
      /\ CoordKey(list[i].coords[1].v, list[i].coords[2].v)
           = CoordKey(list[p].coords[1].v, list[p].coords[2].v) }

\* C2: among the nearby features sharing one coordinate after rounding to 6
\* decimals, the marker of the first stands at the feature's own position
\* and the marker of the k-th (k >= 2) stands 18 m from the feature's own
\* point at angle (k-1)*60 degrees: latitude + 18*sin/111320 and
\* longitude + 18*cos/(111320*cos(latitude)).
C2_KthMarkerDisplacedBy60Degrees ==
  out.op = "showNearbyAmenitiesOnMap" =>
    \A j \in 1..Len(amenityMarkers) :
      LET nearby == out.input
          p == CHOOSE i \in 1..Len(nearby) : nearby[i].id = amenityMarkers[j].fid
          fLng == nearby[p].coords[1].v
          fLat == nearby[p].coords[2].v
          k == Cardinality(SameSpotUpTo(nearby, p))
      IN /\ k = 1 => amenityMarkers[j].lng = fLng /\ amenityMarkers[j].lat = fLat
         /\ k >= 2 =>
              /\ amenityMarkers[j].lat =
                   fLat + Div(OffsetMeters * SinAngleE6(k) * 10, MetersPerDegLat)
              /\ amenityMarkers[j].lng =
                   fLng + Div(OffsetMeters * CosAngleE6(k) * 10, MetersPerDegLng(fLat))

\* three features of one rounded coordinate were laid out, the third off its
\* own point on both axes, one of them with its own raw coordinate
C2_Witness ==
  /\ out.op = "showNearbyAmenitiesOnMap"
  /\ Len(amenityMarkers) = 3
  /\ Cardinality(SameSpotUpTo(out.input, 3)) = 3
  /\ amenityMarkers[3].lat # out.input[3].coords[2].v
  /\ amenityMarkers[3].lng # out.input[3].coords[1].v
  /\ \E i \in 1..3 : out.input[i].coords[1].v # out.input[1].coords[1].v

\* C3: the marker positions showNearbyAmenitiesOnMap produces are pairwise
\* distinct, however many amenities share a rounded coordinate.
C3_MarkerPositionsDistinct ==
  out.op = "showNearbyAmenitiesOnMap" =>
    \A i, j \in 1..Len(amenityMarkers) :
      i # j => \/ amenityMarkers[i].lng # amenityMarkers[j].lng
               \/ amenityMarkers[i].lat # amenityMarkers[j].lat

\* C4: a feature that is not a Point, or whose coordinates are not two
\* numbers, is skipped without an exception by getNearbyAmenities,
\* showNearbyAmenitiesOnMap and showAmenitiesOnMap, and every well-formed
\* feature of the same list is still processed (gets its marker).
C4_MalformedSkippedSilently ==
  out.op \in {"getNearbyAmenities", "showNearbyAmenitiesOnMap", "showAmenitiesOnMap"} =>
    /\ ~out.threw
    /\ out.op # "getNearbyAmenities" /\ hdbMap =>
         \A i \in 1..Len(out.input) :
           WellFormedPoint(out.input[i]) =>
             \E j \in 1..Len(amenityMarkers) : amenityMarkers[j].fid = out.input[i].id

\* C5: showNearbyAmenitiesOnMap returns one entry per nearby feature that is
\* not malformed, in their order, and amenityMarkers then holds exactly one
\* marker per returned feature.
C5_OneEntryAndMarkerPerNearby ==
  out.op = "showNearbyAmenitiesOnMap" =>
    /\ out.ret = SelectSeq(out.input, WellFormedPoint)
    /\ Len(amenityMarkers) = Len(out.ret)
    /\ \A j \in 1..Len(out.ret) : amenityMarkers[j].fid = out.ret[j].id

Contains(b, p) ==
  /\ b.minLng <= p.lng /\ p.lng <= b.maxLng
  /\ b.minLat <= p.lat /\ p.lat <= b.maxLat

\* C6: whenever showAmenitiesOnMap, showListingsOnMap or
\* highlightComparedTownsOnMap calls fitBounds, the bounds passed have
\* min <= max on both axes and contain every point folded in; for a single
\* point min equals max equals that point.
C6_FitBoundsContainFoldedPoints ==
  out.fit =>
    /\ ~out.bounds.empty
    /\ out.bounds.minLng <= out.bounds.maxLng
    /\ out.bounds.minLat <= out.bounds.maxLat
    /\ \A i \in 1..Len(out.points) : Contains(out.bounds, out.points[i])
    /\ Len(out.points) = 1 =>
         /\ out.bounds.minLng = out.points[1].lng /\ out.bounds.maxLng = out.points[1].lng
         /\ out.bounds.minLat = out.points[1].lat /\ out.bounds.maxLat = out.points[1].lat

\* a fit over several points, a later one south-west of the first
C6_Witness ==
  /\ out.fit
  /\ Len(out.points) >= 3
  /\ \E i \in 2..Len(out.points) :
       out.points[i].lng < out.points[1].lng /\ out.points[i].lat < out.points[1].lat

\* the call had nothing to frame: no drawable amenity, no listing with
\* coordinates, no town geometry or centre that gives a point
NothingToFrame ==
  \/ /\ out.op = "showAmenitiesOnMap"
     /\ \A i \in 1..Len(out.input) : ~WellFormedPoint(out.input[i])
  \/ /\ out.op = "showListingsOnMap"
     /\ \A i \in 1..Len(out.input) : ~HasCoords(out.input[i])
  \/ /\ out.op = "highlightComparedTownsOnMap"
     /\ Len(out.points) = 0

\* C7: when there is nothing to frame (no drawable amenity, no listing with
\* coordinates, no town geometry or centre), fitBounds is not called and no
\* exception is raised; fitBounds never gets empty bounds.
C7_NoFitWithoutPoints ==
  /\ out.fit => ~out.bounds.empty
  /\ NothingToFrame => ~out.fit /\ ~out.threw

\* C8: amenitiesData is assigned at most once, by the startup preload, and
\* after that no step changes it or anything stored in it.
C8_CacheAssignedOnce ==
  [][amenitiesData' # amenitiesData =>
       /\ amenitiesData.isNull
       /\ bootPc = "preload" /\ bootPc' = "ready"]_vars

\* the cache is assigned and a lookup has laid out displaced markers from it
C8_Witness ==
  /\ ~amenitiesData.isNull
  /\ out.op = "showNearbyAmenitiesOnMap"
  /\ \E j \in 1..Len(amenityMarkers) :
       \E i \in 1..Len(amenitiesData.features) :
         /\ amenitiesData.features[i].id = amenityMarkers[j].fid
         /\ amenitiesData.features[i].coords[1].v # amenityMarkers[j].lng

\* the features of the classes whose preload fetch succeeded, in class order
RECURSIVE FetchedFeatures(_, _)
FetchedFeatures(okByClass, i) ==
  IF i > Len(okByClass) THEN <<>>
  ELSE (IF okByClass[i] THEN ServerAmenities(AmenityClasses[i]) ELSE <<>>)
       \o FetchedFeatures(okByClass, i + 1)

\* C9: every proximity lookup runs after the preload has finished and sees
\* the complete feature set the preload assigned, never a null or partly
\* merged cache.
C9_LookupSeesCompleteCache ==
  out.op = "showNearbyAmenitiesOnMap" =>
    /\ out.bootPc = "ready"
    /\ ~out.cache.isNull
    /\ Len(fetched) = Len(AmenityClasses)
    /\ out.cache.features = FetchedFeatures(fetched, 1)

\* a lookup found amenities in a cache that one failed class is missing from
C9_Witness ==
  /\ out.op = "showNearbyAmenitiesOnMap"
  /\ Len(out.ret) > 0
  /\ \E i \in 1..Len(fetched) : ~fetched[i]

\* C10: an affordability evaluation with invalid input (down payment of 100
\* percent or more, a negative tenure, a non-finite number) ends with the
\* error card, and the result card never shows a figure that is not a
\* number or is negative.
C10_InvalidInputShownAsError ==
  /\ (out.op = "affordability" /\ ~ValidInput(out.body)) => afDisplay.kind = "error"
  /\ afDisplay.kind = "result" =>
       \A f \in {"max_property_value", "max_loan_amount", "down_payment_required"} :
         afDisplay[f].k = "num" /\ afDisplay[f].v >= 0

\* the server answered a down payment of exactly 100 percent with ok: false
C10_Witness ==
  /\ out.op = "affordability"
  /\ out.body.down_payment_pct = NumE(100)
  /\ out.reply = "json"
  /\ afDisplay.kind = "error"

\* ============================================================ pure functions
\* --------------------------------------------------------- getAmenityConfig
\* AMENITY_ICONS; the icons are named by their code points
AMENITY_ICONS ==
  [ MRT_STATION |-> [icon |-> "U+1F687", color |-> "#dc2626", label |-> "MRT Station"],
    SCHOOL      |-> [icon |-> "U+1F3EB", color |-> "#2563eb", label |-> "School"],
    CLINIC      |-> [icon |-> "U+1F3E5", color |-> "#059669", label |-> "Clinic"],
    SUPERMARKET |-> [icon |-> "U+1F6D2", color |-> "#ea580c", label |-> "Supermarket"],
    PARK        |-> [icon |-> "U+1F333", color |-> "#16a34a", label |-> "Park"],
    DEFAULT     |-> [icon |-> "U+1F4CD", color |-> "#10b981", label |-> "Amenity"] ]

\* the amenity types getAmenityConfig is called with: a string, null or
\* undefined
StrT(s) == [k |-> "str", s |-> s]
NullT == [k |-> "null", s |-> ""]
UndefT == [k |-> "undef", s |-> ""]

AmenityTypes ==
  { StrT(s) : s \in { "MRT_STATION", "mrt_station", "Mrt_Station", "SCHOOL", "school",
                      "CLINIC", "Clinic", "SUPERMARKET", "supermarket", "PARK", "park",
                      "DEFAULT", "default", "HOSPITAL", "hospital", "constructor", "" } }
  \cup { NullT, UndefT }

\* String.prototype.toUpperCase on the strings above
ToUpperCase(s) ==
  CASE s \in {"mrt_station", "Mrt_Station"} -> "MRT_STATION"
    [] s = "school" -> "SCHOOL"
    [] s = "Clinic" -> "CLINIC"
    [] s = "supermarket" -> "SUPERMARKET"
    [] s = "park" -> "PARK"
    [] s = "default" -> "DEFAULT"
    [] s = "hospital" -> "HOSPITAL"
    [] s = "constructor" -> "CONSTRUCTOR"
    [] OTHER -> s

\* amenityType ? ... : ...: only a non-empty string is truthy
Truthy(amenityType) == amenityType.k = "str" /\ amenityType.s # ""

getAmenityConfig_caseSensitive(amenityType) ==
  LET type == IF Truthy(amenityType) THEN amenityType.s ELSE "DEFAULT"
  IN IF type \in DOMAIN AMENITY_ICONS THEN AMENITY_ICONS[type]
     ELSE AMENITY_ICONS["DEFAULT"]

getAmenityConfig(amenityType) ==
  LET type == IF Truthy(amenityType) THEN ToUpperCase(amenityType.s) ELSE "DEFAULT"
  IN IF type \in DOMAIN AMENITY_ICONS THEN AMENITY_ICONS[type]
     ELSE AMENITY_ICONS["DEFAULT"]

\* ------------------------------------------------------------ the inputs
\* what a user can leave in each field of the affordability form
FieldForms ==
  { Form(i, e, r, t, d) :
      i \in {EmptyV, TextV, InfV, NumV(0), NumV(7500)},
      e \in {EmptyV, NumV(0), NumV(2000)},
      r \in {EmptyV, TextV, NumV(0), NumV(260)},
      t \in {EmptyV, NumV(0), NumV(25), NumV(-5)},
      d \in {EmptyV, NumV(0), NumV(20), NumV(100)} }

\* request bodies sent to the server's evaluate; incomes are whole tens of
\* dollars, so that 30 percent of them is a whole number of dollars
EvalBodies ==
  { [income |-> NumE(i), expenses |-> NumE(e), interest |-> NumE(r),
     tenure_years |-> NumE(t), down_payment_pct |-> NumE(d)] :
      i \in {0, 5000, 7500}, e \in {0, 2000}, r \in {0, 260},
      t \in {1, 25, 30}, d \in {0, 20, 99, 100} }

\* the points distanceInMeters is applied to: P, Q, a point 3e-7 degree east
\* of P, one exactly 600 m north of it, one south-west of it, and one far away
DistPoints ==
  { [lng |-> PLng, lat |-> PLat], [lng |-> QLng, lat |-> QLat],
    [lng |-> PLng + 3, lat |-> PLat], [lng |-> PLng, lat |-> PLat + 54000],
    [lng |-> PLng - 50000, lat |-> PLat - 70000],
    [lng |-> PLng + 2000000, lat |-> PLat + 10000] }

\* the page as the function calls below find it: set up, nothing drawn
InitFn ==
  /\ hdbMap = TRUE
  /\ bootPc = "ready"
  /\ clsIdx = Len(AmenityClasses)
  /\ fetched = <<>>
  /\ mergedFeatures = <<>>
  /\ amenitiesData = FeatureCollection(mergedFeatures)
  /\ panelsReady = TRUE
  /\ amenityMarkers = <<>>
  /\ listingMarkers = <<>>
  /\ compareTownMarkers = <<>>
  /\ currentListingPopup = 0
  /\ cards = <<>>
  /\ lastAffordSignature = NoSignature
  /\ afDisplay = NoDisplay
  /\ afPending = <<>>
  /\ afLoadPending = <<>>
  /\ listPending = <<>>
  /\ amenPending = 0
  /\ cmpPending = 0
  /\ clicks = 0
  /\ out = NoOut

FnUnchanged ==
  UNCHANGED << hdbMap, bootPc, clsIdx, fetched, mergedFeatures, amenitiesData,
               panelsReady, amenityMarkers, listingMarkers, compareTownMarkers,
               currentListingPopup, cards, lastAffordSignature, afDisplay,
               afPending, afLoadPending, listPending, amenPending, cmpPending >>

\* the click handler builds the payload from the form and serialises it
CallPayload(form) ==
  /\ clicks < MaxCalls
  /\ clicks' = clicks + 1
  /\ out' = [NoOut EXCEPT !.op = "payload", !.input = <<form>>,
                          !.body = Stringify(Payload(form))]
  /\ FnUnchanged

\* getAmenityConfig(amenityType)
CallGetAmenityConfig(amenityType) ==
  /\ clicks < MaxCalls
  /\ clicks' = clicks + 1
  /\ out' = [NoOut EXCEPT !.op = "getAmenityConfig", !.input = <<amenityType>>,
                          !.ret = <<getAmenityConfig(amenityType)>>]
  /\ FnUnchanged

\* the server evaluates a request body
CallEvaluate(body) ==
  /\ clicks < MaxCalls
  /\ clicks' = clicks + 1
  /\ \E reply \in AffordReplies(body) :
       /\ reply.kind = "json"
       /\ out' = [NoOut EXCEPT !.op = "evaluate", !.body = body, !.reply = reply.kind,
                               !.threw = ~reply.ok, !.ret = <<reply.figures>>]
  /\ FnUnchanged

\* distanceInMeters(a.lat, a.lng, b.lat, b.lng)
CallDistance(a, b) ==
  /\ clicks < MaxCalls
  /\ clicks' = clicks + 1
  /\ out' = [NoOut EXCEPT !.op = "distanceInMeters", !.points = <<a, b>>,
                          !.ret = <<distanceInMeters(a.lat, a.lng, b.lat, b.lng)>>]
  /\ FnUnchanged

\* listings at P with their price in one field or another, as a number, a
\* numeric string, an empty string, null or not at all; 28 has no coordinates
PricedListing(id, price, resale_price, estimated_price) ==
  [Listing(id, NumE(PLng), NumE(PLat), price) EXCEPT
     !.resale_price = resale_price, !.estimated_price = estimated_price]

PricedListings ==
  << PricedListing(21, NumE(400000), UndefE, UndefE),
     PricedListing(22, StrE(400000), UndefE, UndefE),
     PricedListing(23, EmptyStrE, NumE(300000), UndefE),
     PricedListing(24, NullE, NumE(300000), UndefE),
     PricedListing(25, UndefE, UndefE, NumE(900000)),
     PricedListing(26, NumE(0), NumE(300000), UndefE),
     PricedListing(27, NullE, NullE, UndefE),
     Listing(28, NullE, NullE, NumE(300000)) >>

\* the results of the listings request: one listing, or two in a row
PricedResults ==
  { <<PricedListings[i]>> : i \in 1..Len(PricedListings) }
  \cup { <<PricedListings[i], PricedListings[i + 1]>> : i \in 1..Len(PricedListings) - 1 }

\* max_property_value of a calculation
MaxValues == {350000, 620465}

\* loadAffordableListingsOnMap(maxPropertyValue) once its listings request
\* has answered with results; out.ret: the markers it drew
CallLoadAffordable(results, maxPropertyValue) ==
  /\ clicks < MaxCalls
  /\ clicks' = clicks + 1
  /\ LET affordable == AffordableListings(results, maxPropertyValue)
         r == showListingsOnMap(hdbMap, affordable, Globals)
     IN out' = [FitOut("affordableListings", results, r.res)
                 EXCEPT !.max = maxPropertyValue, !.ret = r.g.listingMarkers]
  /\ FnUnchanged

NextFn ==
  \/ \E results \in PricedResults, maxPropertyValue \in MaxValues :
       CallLoadAffordable(results, maxPropertyValue)
  \/ \E form \in FieldForms : CallPayload(form)
  \/ \E amenityType \in AmenityTypes : CallGetAmenityConfig(amenityType)
  \/ \E body \in EvalBodies : CallEvaluate(body)
  \/ \E a \in DistPoints, b \in DistPoints : CallDistance(a, b)

SpecFn == InitFn /\ [][NextFn]_vars

\* the default of each payload field, and the form field it is read from
PayloadDefault ==
  [income |-> 0, expenses |-> 0, interest |-> 260, tenure_years |-> 25,
   down_payment_pct |-> 20]

FormField(form, f) ==
  CASE f = "income" -> form.income
    [] f = "expenses" -> form.expenses
    [] f = "interest" -> form.interest
    [] f = "tenure_years" -> form.tenure
    [] f = "down_payment_pct" -> form.downpayment

\* C11: in the payload the form handler sends, a field has its default
\* (income 0, expenses 0, interest 2.6, tenure_years 25, down_payment_pct 20)
\* when the form value is missing or unparsable, and every number the user
\* entered, 0 included, is sent unchanged.
C11_DefaultOnlyWhenUnparsable ==
  out.op = "payload" =>
    \A f \in DOMAIN PayloadDefault :
      LET field == FormField(out.input[1], f)
      IN /\ field.k \in {"empty", "text"} => out.body[f] = NumE(PayloadDefault[f])
         /\ field.k = "num" => out.body[f] = NumE(field.v)

\* C12: getAmenityConfig answers every string, null and undefined: a type
\* equal, ignoring case, to one of the five categories gets that category's
\* entry, everything else the DEFAULT entry; the five entries have pairwise
\* different icons and colours.
C12_AmenityConfigTotal ==
  /\ out.op = "getAmenityConfig" =>
       LET t == out.input[1]
           cat == IF t.k = "str" THEN ToUpperCase(t.s) ELSE ""
       IN /\ Len(out.ret) = 1
          /\ cat \in {"MRT_STATION", "SCHOOL", "CLINIC", "SUPERMARKET", "PARK"}
               => out.ret[1] = AMENITY_ICONS[cat]
          /\ cat \notin {"MRT_STATION", "SCHOOL", "CLINIC", "SUPERMARKET", "PARK"}
               => out.ret[1] = AMENITY_ICONS["DEFAULT"]
  /\ \A a, b \in {"MRT_STATION", "SCHOOL", "CLINIC", "SUPERMARKET", "PARK"} :
       a # b => /\ AMENITY_ICONS[a].icon # AMENITY_ICONS[b].icon
                /\ AMENITY_ICONS[a].color # AMENITY_ICONS[b].color

\* a lower-case category name got its category's entry
C12_Witness ==
  /\ out.op = "getAmenityConfig"
  /\ out.input[1] = StrT("school")
  /\ out.ret[1].label = "School"

\* the last layout was of exactly two nearby amenities with identical
\* coordinates, and both were drawn
TwoAtOnePoint ==
  /\ out.op = "showNearbyAmenitiesOnMap"
  /\ Len(out.input) = 2
  /\ WellFormedPoint(out.input[1]) /\ WellFormedPoint(out.input[2])
  /\ out.input[1].coords = out.input[2].coords
  /\ Len(amenityMarkers) = 2

\* C13 (as the code has it): of two amenities at identical coordinates the
\* first is drawn at its original position and the second 18 m away at 60
\* degrees, north-east of it: latitude raised by 18*sin(60)/111320 and
\* longitude by 18*cos(60)/(111320*cos(latitude)).
C13_SecondAtSixtyDegrees ==
  TwoAtOnePoint =>
    LET fLng == out.input[2].coords[1].v
        fLat == out.input[2].coords[2].v
    IN /\ amenityMarkers[1].lng = fLng /\ amenityMarkers[1].lat = fLat
       /\ amenityMarkers[2].lat = fLat + Div(OffsetMeters * 866025 * 10, MetersPerDegLat)
       /\ amenityMarkers[2].lng = fLng + Div(OffsetMeters * 500000 * 10, MetersPerDegLng(fLat))
       /\ amenityMarkers[2].lat > fLat /\ amenityMarkers[2].lng > fLng

\* C13 as stated: the second of two amenities at identical coordinates is
\* drawn at angle 0, due east: longitude increased, latitude unchanged.
C13_SecondDueEast ==
  TwoAtOnePoint =>
    /\ amenityMarkers[1].lng = out.input[1].coords[1].v
    /\ amenityMarkers[1].lat = out.input[1].coords[2].v
    /\ amenityMarkers[2].lat = out.input[2].coords[2].v
    /\ amenityMarkers[2].lng > out.input[2].coords[1].v

\* two amenities of different classes at one point were laid out
C13_Witness ==
  /\ TwoAtOnePoint
  /\ out.input[1].cls # out.input[2].cls
  /\ ~out.threw
\* C14: the lookup and layout keep no state between calls: whatever was
\* called and drawn before, showNearbyAmenitiesOnMap returns the features
\* and leaves the markers that the same centre, radius and cache give on a
\* map with no amenity drawn yet.
C14_LookupKeepsNoState ==
  (out.op = "showNearbyAmenitiesOnMap" /\ hdbMap) =>
    LET fresh == showNearbyAmenitiesOnMap(TRUE, out.cache, <<>>, out.lat, out.lng,
                                          out.radius)
    IN /\ out.ret = fresh.ret
       /\ out.threw = fresh.threw
       /\ amenityMarkers = fresh.markers

\* a layout with displaced markers ran while other amenity markers, left by
\* an earlier call, were on the map
C14_Witness ==
  /\ out.op = "showNearbyAmenitiesOnMap"
  /\ Len(out.before) > 0
  /\ out.before # amenityMarkers
  /\ Len(out.ret) >= 2
  /\ \E j \in 1..Len(amenityMarkers) :
       amenityMarkers[j].lat # out.ret[j].coords[2].v
\* the requests in flight that the click numbered act has issued
InFlight(act) ==
  Cardinality({ i \in 1..Len(afPending) : afPending[i].act = act })
  + Cardinality({ i \in 1..Len(afLoadPending) : afLoadPending[i].act = act })

\* C15: the requests of one action are sequential: while the preload runs,
\* exactly one of its class requests is unsettled, and no click has two
\* requests in flight (the listings search of an affordability calculation
\* is sent once the calculation has settled).
C15_OneRequestPerAction ==
  /\ bootPc = "preload" => clsIdx - Len(fetched) = 1
  /\ bootPc # "preload" => clsIdx - Len(fetched) <= 0
  /\ \A act \in 1..clicks : InFlight(act) <= 1

\* the preload is over, the listings search of one calculation is in flight
\* and so is the calculation of a later click
C15_Witness ==
  /\ bootPc = "ready"
  /\ Len(fetched) = Len(AmenityClasses)
  /\ Len(afLoadPending) = 1
  /\ Len(afPending) = 1
  /\ afLoadPending[1].act < afPending[1].act
\* C16: for a valid input with interest 0, and so a monthly rate of 0, the
\* evaluation gives max_loan_amount = 0.30 * income * tenure_years * 12
\* exactly.
C16_ZeroRateLoanIsPaymentTimesMonths ==
  ( /\ out.op = "evaluate"
    /\ ValidInput(out.body)
    /\ out.body.interest.v = 0 ) =>
      /\ ~out.threw
      /\ out.ret[1].max_loan_amount.k = "num"
      /\ out.ret[1].max_loan_amount.v * 100
           = 30 * out.body.income.v * out.body.tenure_years.v * 12

\* an interest-free loan over 25 years on an income of 7500 was evaluated
C16_Witness ==
  /\ out.op = "evaluate"
  /\ out.body.interest = NumE(0)
  /\ out.body.income = NumE(7500)
  /\ out.body.tenure_years = NumE(25)
  /\ ~out.threw
  /\ out.ret[1].max_loan_amount.v > 0

\* C17: distanceInMeters gives the same distance in both directions, and 0
\* between a point and itself.
C17_DistanceSymmetricZeroOnSelf ==
  out.op = "distanceInMeters" =>
    LET a == out.points[1]
        b == out.points[2]
    IN /\ out.ret = <<distanceInMeters(b.lat, b.lng, a.lat, a.lng)>>
       /\ a = b => out.ret = <<0>>

\* a distance of some hundred metres between two points that differ on both
\* axes was computed
C17_Witness ==
  /\ out.op = "distanceInMeters"
  /\ out.points[1].lat > out.points[2].lat
  /\ out.points[1].lng > out.points[2].lng
  /\ out.ret[1] > 100
  /\ out.ret[1] < FarMeters
\* C18: an amenity without a display name is shown as "Unnamed amenity"
\* wherever it is shown: in the popup of its amenity marker and in the list
\* of nearby amenities of a listing popup.
C18_NamelessShownAsUnnamedAmenity ==
  /\ \A j \in 1..Len(amenityMarkers) :
       \A i \in 1..Len(out.input) :
         (out.op \in {"showNearbyAmenitiesOnMap", "showAmenitiesOnMap"}
          /\ out.input[i].id = amenityMarkers[j].fid
          /\ out.input[i].name = "")
            => amenityMarkers[j].name = "Unnamed amenity"
  /\ \A i \in 1..Len(out.listed) :
       out.ret[i].name = "" => out.listed[i] = "Unnamed amenity"

\* ------------------------------------------------------------------- C19
\* the drawn listing markers whose popup is open on the map
OpenListingPopups ==
  {j \in 1..Len(listingMarkers) : listingMarkers[j].popupOpen}

CardClickDone ==
  /\ out.card # 0
  /\ hdbMap
  /\ ~out.threw
  /\ \E i \in 1..Len(cards) : cards[i].id = out.card /\ HasCoords(cards[i])

\* C20: clicking the i-th card of the listing result list opens the popup
\* on the map marker of that same listing, after any sequence of searches,
\* affordability calculations and other map-redrawing actions, and also when
\* some results have no latitude or longitude.
C20_CardOpensItsOwnMarker ==
  CardClickDone =>
    /\ currentListingPopup = out.card
    /\ \E j \in OpenListingPopups : listingMarkers[j].lid = out.card

\* ------------------------------------------------------------------- C21
\* no listing search, affordability calculation or affordable-listings load
\* is in flight
NoRedrawPending ==
  /\ listPending = <<>>
  /\ afPending = <<>>
  /\ afLoadPending = <<>>

\* C21: when two user actions that redraw the map or a result list overlap,
\* the markers finally displayed are those of the action issued last,
\* whatever the order in which the responses arrive: once every response has
\* arrived, no step has replaced the listing markers of a click by those of
\* an earlier click.
C21_LastIssuedActionWins ==
  [][(/\ listingMarkers # <<>>
      /\ listingMarkers' # <<>>
      /\ NoRedrawPending')
     => listingMarkers'[1].act >= listingMarkers[1].act]_vars

\* ------------------------------------------------------------------- C22
\* the i-th calculation in flight was submitted with the inputs of the
\* calculation before it, whose failure the card was showing
IsRetry(i) ==
  /\ i \in 1..Len(afPending)
  /\ afPending[i].afterError
  /\ ~afPending[i].hasChanged

\* C22: if an affordability calculation fails, submitting the same inputs
\* again and succeeding with a positive max_property_value loads the
\* affordable listings onto the map: the step on which such a retry succeeds
\* sends its listings request.
C22_RetryAfterFailureLoads ==
  [][\A i \in 1..MaxClicks :
       (/\ IsRetry(i)
        /\ hdbMap
        /\ afPending' = RemoveAt(afPending, i)
        /\ afDisplay'.kind = "result"
        /\ afDisplay'.max_property_value.k = "num"
        /\ afDisplay'.max_property_value.v > 0)
       => \E j \in 1..Len(afLoadPending') :
            afLoadPending'[j].act = afPending[i].act]_vars

\* ------------------------------------------------------------------- C23
\* C23: an affordability click whose inputs are identical to those of the
\* previous click leaves the map untouched: it leaves listingMarkers,
\* amenityMarkers and the open listing popup unchanged and, when it is
\* answered, issues no listings request; markers are cleared and listings
\* reloaded only when the inputs changed.  (lastAffordSignature is the
\* signature of the previous click: every click leaves its own there.)
C23_SameInputsLeaveMapUntouched ==
  [][/\ Len(afPending') = Len(afPending) + 1 =>
          LET e == afPending'[Len(afPending')]
          IN /\ lastAffordSignature' = e.body
             /\ e.hasChanged <=> e.body # lastAffordSignature
             /\ e.body = lastAffordSignature =>
                  UNCHANGED << listingMarkers, amenityMarkers, currentListingPopup,
                               afLoadPending >>
     /\ \A i \in 1..MaxClicks :
          (/\ i <= Len(afPending)
           /\ afPending' = RemoveAt(afPending, i)
           /\ \E j \in 1..Len(afLoadPending') :
                afLoadPending'[j].act = afPending[i].act)
          => afPending[i].hasChanged]_vars

\* a second calculation with the inputs of the first has been answered while
\* the listings the first one loaded are still on the map
C23_Witness ==
  /\ out.op = "affordability"
  /\ ~out.threw
  /\ out.body = lastAffordSignature
  /\ listingMarkers # <<>>
  /\ out.act > listingMarkers[1].act
  /\ afLoadPending = <<>>

\* ------------------------------------------------------------------- C24
\* the listings of a list that have both coordinates, by identifier
IdsWithCoords(listings) ==
  LET kept == SelectSeq(listings, HasCoords)
  IN [j \in 1..Len(kept) |-> kept[j].id]

\* the listings the drawn markers stand for
MarkerIds(markers) == [j \in 1..Len(markers) |-> markers[j].lid]

\* the last handler was a listing search or an affordable-listings load that
\* completed successfully (out.input: the returned, or the affordable,
\* listings)
ListingsLoaded ==
  \/ out.op = "showListingsOnMap"
  \/ out.op = "listingSearch" /\ out.reply # "throw"

\* C24: after a listing search or an affordable-listings load completes
\* successfully, the listing markers on the map are exactly the markers of
\* the returned (respectively affordable) listings that have coordinates; in
\* particular, when the result is empty no listing marker of an earlier
\* action remains on the map.
C24_MarkersAreThoseOfTheResult ==
  (hdbMap /\ ListingsLoaded) =>
    MarkerIds(listingMarkers) = IdsWithCoords(out.input)

\* ------------------------------------------------------------------- C25
\* the last handler ran showListingsOnMap with a non-empty list on a map
ListingsDrawn ==
  /\ out.op = "showListingsOnMap"
  /\ hdbMap
  /\ Len(out.input) > 0

C26_FitContainsEveryTownMarker ==
  (out.op = "highlightComparedTownsOnMap" /\ Len(compareTownMarkers) > 0) =>
    /\ out.fit
    /\ \A j \in 1..Len(compareTownMarkers) :
         Contains(out.bounds, compareTownMarkers[j])

\* ------------------------------------------------------------------- C27
\* C27: loadAffordableListingsOnMap draws a listing (one that has
\* coordinates) if and only if the listing's price, the first of price,
\* resale_price and estimated_price that is present and the same price the
\* listing's popup displays, is a non-zero number not greater than
\* maxPropertyValue.
C27_DrawnIffPopupPriceAffordable ==
  out.op = "affordableListings" =>
    \A i \in 1..Len(out.input) :
      HasCoords(out.input[i]) =>
        ((\E j \in 1..Len(out.ret) : out.ret[j].lid = out.input[i].id)
         <=> (/\ PopupPrice(out.input[i]).k = "num"
              /\ PopupPrice(out.input[i]).v # 0
              /\ PopupPrice(out.input[i]).v <= out.max))

\* ------------------------------------------------------------------- C28
\* C28: during startup, a failed fetch of one amenity class does not abort
\* the preload or the bootstrap: the preload goes on with the next class, the
\* cache ends up holding the features of every class whose fetch succeeded,
\* concatenated in the order MRT_STATION, SCHOOL, CLINIC, SUPERMARKET, PARK,
\* and the panels are still set up.
C28_FailedClassDoesNotAbort ==
  /\ bootPc = "failed" => fetched = <<>>
  /\ bootPc = "preload" =>
       /\ Len(fetched) < Len(AmenityClasses)
       /\ clsIdx = Len(fetched) + 1
  /\ Len(fetched) = Len(AmenityClasses) =>
       /\ bootPc = "ready"
       /\ panelsReady
       /\ ~amenitiesData.isNull
       /\ amenitiesData.features = FetchedFeatures(fetched, 1)

\* startup is over, with a class that failed between two that succeeded
C28_Witness ==
  /\ bootPc = "ready"
  /\ panelsReady
  /\ \E i \in 2..Len(fetched) - 1 : ~fetched[i] /\ fetched[i - 1] /\ fetched[i + 1]
  /\ Len(amenitiesData.features) > 0

====
